---- MODULE Spec2Model ----
(***************************************************************************)
(* Model of the extraction-to-statement pipeline of the accounting         *)
(* workbench: FinancialWorkspace (src/unnamed/part_000), the document and  *)
(* classification services and the data types (src/unnamed/part_001) and   *)
(* the client store of App (src/unnamed/part_002).                          *)
(*                                                                         *)
(* Money is a JavaScript number in the source.  Here it is an integer      *)
(* count of hundredths (Scale = 100), so 1.5 is 150 and the checker's      *)
(* tolerance of 1 is 100; floating-point rounding is not modelled.  NaN    *)
(* is one reserved value outside the range of amounts.                     *)
(***************************************************************************)
EXTENDS Integers, Sequences, FiniteSets, TLC

VARIABLES
    accounts,     \* useState<AccountLine[]>      part_000:20
    loading,      \* useState(false)              part_000:18
    tab,          \* useState<WorkbenchTab>       part_000:17
    client,       \* the client prop = App.activeClient   part_000:10, part_002:29
    globalModel,  \* App.globalModel              part_002:30
    fin,          \* running handleFinancialUpload calls, by slot
    reg,          \* running handleRegulationUpload calls, by slot
    lastImport,   \* the record of the last finished financial import
    nextId,       \* ids handed out so far by crypto.randomUUID()
    edits,        \* manual editor operations performed so far
    app           \* the state of App: view, isSaved, isImportingModel, ...   part_002:27-32

vars == <<accounts, loading, tab, client, globalModel, fin, reg, lastImport,
          nextId, edits, app>>

----------------------------------------------------------------------------
(* Bounds of the model *)

MaxSlots == 2
MaxRegSlots == 1
MaxRows == 2
MaxItems == 2
MaxLines == 2
MaxEdits == 1
MaxIds == 4
MaxCategories == 3

(* Hundredths per currency unit *)
Scale == 100

----------------------------------------------------------------------------
(* JavaScript numbers *)

NaN == -999999

\* x || 0  on a number: NaN, undefined and 0 all give 0
OrZero(x) == IF x = NaN THEN 0 ELSE x

JsAdd(a, b) == IF a = NaN \/ b = NaN THEN NaN ELSE a + b

JsSub(a, b) == IF a = NaN \/ b = NaN THEN NaN ELSE a - b

JsAbs(a) == IF a = NaN THEN NaN ELSE IF a < 0 THEN -a ELSE a

\* a > b is false as soon as one side is NaN
JsGt(a, b) == a # NaN /\ b # NaN /\ a > b

----------------------------------------------------------------------------
(* String(cell).replace(/[^0-9.-]/g, '') and parseFloat.  A cell is the     *)
(* sequence of the characters of String(cell).                             *)

Digits == {"0", "1", "2", "3", "4", "5", "6", "7", "8", "9"}

DigitVal(c) == CHOOSE n \in 0..9 : ToString(n) = c

UndefinedStr == <<"u", "n", "d", "e", "f", "i", "n", "e", "d">>

\* row[idx] for a 0-based idx, then String(...)
StringOfCell(row, idx) ==
    IF idx >= 0 /\ idx < Len(row) THEN row[idx + 1] ELSE UndefinedStr

\* String(row[idx] || ''): a missing cell is the empty string
StringOrEmpty(row, idx) ==
    IF idx >= 0 /\ idx < Len(row) THEN row[idx + 1] ELSE <<>>

StripNonNumeric(s) == SelectSeq(s, LAMBDA c : c \in Digits \cup {".", "-"})

RECURSIVE DigitPrefix(_)
DigitPrefix(s) ==
    IF s = <<>> \/ Head(s) \notin Digits THEN <<>>
    ELSE <<Head(s)>> \o DigitPrefix(Tail(s))

RECURSIVE IntOfDigits(_)
IntOfDigits(ds) ==
    IF ds = <<>> THEN 0
    ELSE 10 * IntOfDigits(SubSeq(ds, 1, Len(ds) - 1)) + DigitVal(ds[Len(ds)])

\* the fraction digits as hundredths; digits past the second are dropped
FracHundredths(ds) ==
    (IF Len(ds) >= 1 THEN 10 * DigitVal(ds[1]) ELSE 0)
    + (IF Len(ds) >= 2 THEN DigitVal(ds[2]) ELSE 0)

\* parseFloat on a string of digits, '.' and '-': the longest numeric prefix
\* [-]digits[.digits], NaN when that prefix holds no digit
ParseFloat(s) ==
    LET neg == s # <<>> /\ Head(s) = "-"
        rest == IF neg THEN Tail(s) ELSE s
        ip == DigitPrefix(rest)
        after == SubSeq(rest, Len(ip) + 1, Len(rest))
        fp == IF after # <<>> /\ Head(after) = "." THEN DigitPrefix(Tail(after))
              ELSE <<>>
        mag == Scale * IntOfDigits(ip) + FracHundredths(fp)
    IN  IF ip = <<>> /\ fp = <<>> THEN NaN
        ELSE IF neg THEN -mag ELSE mag

\* parseFloat(String(row[idx]).replace(/[^0-9.-]/g, '')) || 0
ParseAmount(row, idx) == OrZero(ParseFloat(StripNonNumeric(StringOfCell(row, idx))))

\* String.prototype.trim over the characters used here
RECURSIVE TrimLeft(_)
TrimLeft(s) == IF s # <<>> /\ Head(s) = " " THEN TrimLeft(Tail(s)) ELSE s

RECURSIVE TrimRight(_)
TrimRight(s) ==
    IF s # <<>> /\ s[Len(s)] = " " THEN TrimRight(SubSeq(s, 1, Len(s) - 1)) ELSE s

Trim(s) == TrimRight(TrimLeft(s))

\* the characters joined into one string
RECURSIVE Str(_)
Str(s) == IF s = <<>> THEN "" ELSE Head(s) \o Str(Tail(s))

----------------------------------------------------------------------------
(* Types (part_001:422-442) *)

ASSET == "ACTIVO"
LIABILITY == "PASIVO"
EQUITY == "PATRIMONIO_NETO"
REVENUE == "INGRESOS"
EXPENSE == "EGRESOS"
UNCLASSIFIED == "SIN_CLASIFICAR"

AccountType == {ASSET, LIABILITY, EQUITY, REVENUE, EXPENSE, UNCLASSIFIED}

AccountLine(id, code, name, debit, credit, balance, type, category, isGroup, mo) ==
    [id |-> id, code |-> code, name |-> name, debit |-> debit, credit |-> credit,
     balance |-> balance, type |-> type, category |-> category,
     isGroup |-> isGroup, manualOverride |-> mo]

----------------------------------------------------------------------------
(* parseFinancialDocument, the spreadsheet strategy (part_001:128-216).    *)
(* rows is the sheet as an array of arrays; mapping is the column mapping  *)
(* the oracle answered, an index of -1 meaning that the column is absent.  *)

RowName(row, mapping) ==
    IF mapping.nameIndex > -1 THEN Str(Trim(StringOrEmpty(row, mapping.nameIndex)))
    ELSE ""

RowCode(row, mapping) ==
    IF mapping.codeIndex > -1 THEN Str(StringOrEmpty(row, mapping.codeIndex))
    ELSE ""

\* a test that keeps a named row only when an amount column is mapped
RowRetainedWithAmounts(row, mapping) ==
    /\ Len(row) > 0 /\ RowName(row, mapping) # ""
    /\ \/ mapping.debitIndex > -1 /\ mapping.creditIndex > -1
       \/ mapping.balanceIndex > -1

\* lines 182-185: an empty row and a row without a name are skipped
RowRetained(row, mapping) == Len(row) > 0 /\ RowName(row, mapping) # ""

\* amounts that take the balance of a mapped balance column first
RowAmountsPrefersBalance(row, mapping) ==
    IF mapping.balanceIndex > -1
    THEN LET balance == ParseAmount(row, mapping.balanceIndex)
         IN  IF balance > 0
             THEN [debit |-> balance, credit |-> 0, balance |-> balance]
             ELSE [debit |-> 0, credit |-> JsAbs(balance), balance |-> balance]
    ELSE IF mapping.debitIndex > -1 /\ mapping.creditIndex > -1
    THEN LET debit == ParseAmount(row, mapping.debitIndex)
             credit == ParseAmount(row, mapping.creditIndex)
         IN  [debit |-> debit, credit |-> credit, balance |-> debit - credit]
    ELSE [debit |-> 0, credit |-> 0, balance |-> 0]

\* amounts that put a negative balance on the debit side
RowAmountsSwapped(row, mapping) ==
    IF mapping.debitIndex > -1 /\ mapping.creditIndex > -1
    THEN LET debit == ParseAmount(row, mapping.debitIndex)
             credit == ParseAmount(row, mapping.creditIndex)
         IN  [debit |-> debit, credit |-> credit, balance |-> debit - credit]
    ELSE IF mapping.balanceIndex > -1
    THEN LET balance == ParseAmount(row, mapping.balanceIndex)
         IN  IF balance > 0
             THEN [debit |-> 0, credit |-> balance, balance |-> balance]
             ELSE [debit |-> JsAbs(balance), credit |-> 0, balance |-> balance]
    ELSE [debit |-> 0, credit |-> 0, balance |-> 0]

\* lines 189-202
RowAmounts(row, mapping) ==
    IF mapping.debitIndex > -1 /\ mapping.creditIndex > -1
    THEN LET debit == ParseAmount(row, mapping.debitIndex)
             credit == ParseAmount(row, mapping.creditIndex)
         IN  [debit |-> debit, credit |-> credit, balance |-> debit - credit]
    ELSE IF mapping.balanceIndex > -1
    THEN LET balance == ParseAmount(row, mapping.balanceIndex)
         IN  IF balance > 0
             THEN [debit |-> balance, credit |-> 0, balance |-> balance]
             ELSE [debit |-> 0, credit |-> JsAbs(balance), balance |-> balance]
    ELSE [debit |-> 0, credit |-> 0, balance |-> 0]

\* lines 206-212
RawLineOf(row, mapping) ==
    LET amt == RowAmounts(row, mapping)
    IN  [code |-> RowCode(row, mapping), name |-> RowName(row, mapping),
         debit |-> amt.debit, credit |-> amt.credit, balance |-> amt.balance]

\* the loop of lines 180-213 from the 0-based row i on
RECURSIVE ExtractFrom(_, _, _)
ExtractFrom(rows, mapping, i) ==
    IF i >= Len(rows) THEN <<>>
    ELSE (IF RowRetained(rows[i + 1], mapping)
          THEN <<RawLineOf(rows[i + 1], mapping)>> ELSE <<>>)
         \o ExtractFrom(rows, mapping, i + 1)

\* lines 136 and 178-215
extractedLines(rows, mapping) ==
    IF Len(rows) = 0 THEN <<>> ELSE ExtractFrom(rows, mapping, mapping.startRow)

----------------------------------------------------------------------------
(* classifyAccounts (part_001:260-371).  The oracle's answer resp is       *)
(* [ok, items]: ok = FALSE stands for everything that throws inside the    *)
(* try block (the call failing, text that is not JSON, a JSON value that   *)
(* is not an array, a null element); otherwise items is the parsed array.  *)
(* In an item, type "" and category "" stand for an absent or empty field, *)
(* and isGroup FALSE for an absent one.                                    *)

\* a classificationMap that stores the item's category as it came
RECURSIVE classificationMapAsSupplied(_)
classificationMapAsSupplied(items) ==
    IF items = <<>> THEN [k \in {} |-> 0]
    ELSE LET item == items[Len(items)]
             prev == classificationMapAsSupplied(SubSeq(items, 1, Len(items) - 1))
         IN  [k \in DOMAIN prev \cup {item.id} |->
                 IF k = item.id
                 THEN [type |-> item.type, category |-> item.category,
                       isGroup |-> item.isGroup]
                 ELSE prev[k]]

\* lines 332-341: the last item of an id wins
RECURSIVE classificationMap(_)
classificationMap(items) ==
    IF items = <<>> THEN [k \in {} |-> 0]
    ELSE LET item == items[Len(items)]
             prev == classificationMap(SubSeq(items, 1, Len(items) - 1))
         IN  [k \in DOMAIN prev \cup {item.id} |->
                 IF k = item.id
                 THEN [type |-> item.type,
                       category |-> IF item.category = "" THEN "Otros"
                                    ELSE item.category,
                       isGroup |-> item.isGroup]
                 ELSE prev[k]]

\* a merge without the "|| AccountType.UNCLASSIFIED" and "|| 'Sin Clasificar'"
MergedLineNoDefaults(acc, index, cmap, id) ==
    LET has == index \in DOMAIN cmap
        debit == OrZero(acc.debit)
        credit == OrZero(acc.credit)
    IN  AccountLine(id, acc.code,
            IF acc.name = "" THEN "Cuenta Desconocida" ELSE acc.name,
            debit, credit,
            IF OrZero(acc.balance) = 0 THEN debit - credit ELSE acc.balance,
            IF has THEN cmap[index].type ELSE "",
            IF has THEN cmap[index].category ELSE "",
            has /\ cmap[index].isGroup,
            FALSE)

\* a merge whose category fallback is the map's 'Otros'
MergedLineOtros(acc, index, cmap, id) ==
    LET has == index \in DOMAIN cmap
        debit == OrZero(acc.debit)
        credit == OrZero(acc.credit)
    IN  AccountLine(id, acc.code,
            IF acc.name = "" THEN "Cuenta Desconocida" ELSE acc.name,
            debit, credit,
            IF OrZero(acc.balance) = 0 THEN debit - credit ELSE acc.balance,
            IF has /\ cmap[index].type # "" THEN cmap[index].type ELSE UNCLASSIFIED,
            IF has /\ cmap[index].category # "" THEN cmap[index].category
            ELSE "Otros",
            has /\ cmap[index].isGroup,
            FALSE)

\* lines 343-354, for the raw line acc at the 0-based index
MergedLine(acc, index, cmap, id) ==
    LET has == index \in DOMAIN cmap
        debit == OrZero(acc.debit)
        credit == OrZero(acc.credit)
    IN  AccountLine(id,
            acc.code,
            IF acc.name = "" THEN "Cuenta Desconocida" ELSE acc.name,
            debit,
            credit,
            IF OrZero(acc.balance) = 0 THEN debit - credit ELSE acc.balance,
            IF has /\ cmap[index].type # "" THEN cmap[index].type ELSE UNCLASSIFIED,
            IF has /\ cmap[index].category # "" THEN cmap[index].category
            ELSE "Sin Clasificar",
            has /\ cmap[index].isGroup,
            FALSE)

\* lines 358-369: the catch block
ErrorLine(acc, id) ==
    AccountLine(id,
        acc.code,
        IF acc.name = "" THEN "Error Clasificación" ELSE acc.name,
        OrZero(acc.debit),
        OrZero(acc.credit),
        OrZero(acc.balance),
        UNCLASSIFIED,
        "Error",
        FALSE,
        FALSE)

\* part_001:283-303: the rule text of the prompt, the client's regulations
\* before the global standard before the default rule set; a text of 10
\* characters or less is passed over
activeLogic(customRegulations, globalStandard) ==
    IF Len(customRegulations) > 10 THEN "client"
    ELSE IF Len(globalStandard) > 10 THEN "global"
    ELSE "default"

\* a merge that gives all the lines of an import one id
classifyAccountsOneId(rawAccounts, resp, base) ==
    IF resp.ok
    THEN LET cmap == classificationMap(resp.items)
         IN  [i \in 1..Len(rawAccounts) |->
                 MergedLine(rawAccounts[i], i - 1, cmap, base + 1)]
    ELSE [i \in 1..Len(rawAccounts) |-> ErrorLine(rawAccounts[i], base + 1)]

\* the lines returned for the raw lines rawAccounts; ids base+1, base+2, ...
\* are the fresh crypto.randomUUID() values
classifyAccounts(rawAccounts, resp, base) ==
    IF resp.ok
    THEN LET cmap == classificationMap(resp.items)
         IN  [i \in 1..Len(rawAccounts) |->
                 MergedLine(rawAccounts[i], i - 1, cmap, base + i)]
    ELSE [i \in 1..Len(rawAccounts) |-> ErrorLine(rawAccounts[i], base + i)]

----------------------------------------------------------------------------
(* groupedFinancials (part_000:25-97) *)

\* lines 38-47
defaultOrderMap ==
    ("Caja y Bancos" :> 1) @@ ("Inversiones" :> 2) @@ ("Créditos por Ventas" :> 3)
    @@ ("Otros Créditos" :> 4) @@ ("Bienes de Cambio" :> 5) @@ ("Bienes de Uso" :> 6)
    @@ ("Activos Intangibles" :> 7)
    @@ ("Deudas Comerciales" :> 1) @@ ("Deudas Bancarias" :> 2)
    @@ ("Deudas Sociales y Fiscales" :> 3) @@ ("Otras Deudas" :> 4)
    @@ ("Previsiones" :> 5)
    @@ ("Capital Social" :> 1) @@ ("Reservas" :> 2) @@ ("Resultados Acumulados" :> 3)

\* defaultOrderMap[cat], 0 standing for undefined (both are falsy)
OrderOf(cat) == IF cat \in DOMAIN defaultOrderMap THEN defaultOrderMap[cat] ELSE 0

\* the category labels of the model in the order of String.localeCompare
Collation ==
    <<"10", "2", "Activos Intangibles", "Alfa", "Bienes de Cambio", "Bienes de Uso",
      "Caja y Bancos", "Capital Social", "Créditos por Ventas", "Deudas Bancarias",
      "Deudas Comerciales", "Deudas Sociales y Fiscales", "Error", "Inversiones",
      "Otras Deudas", "Otros", "Otros Créditos", "Previsiones", "Reservas",
      "Resultados Acumulados", "Sin Clasificar", "Zeta">>

CollationRank(cat) == CHOOSE i \in 1..Len(Collation) : Collation[i] = cat

\* a.localeCompare(b)
localeCompare(a, b) ==
    IF CollationRank(a) < CollationRank(b) THEN -1
    ELSE IF CollationRank(a) > CollationRank(b) THEN 1 ELSE 0

\* line 53: client.customRegulations || (globalModel && globalModel.length > 0)
hasCustomModel(customRegulations, model) == customRegulations # "" \/ model # ""

\* a comparator that leaves two categories outside the table as they come
compareCategoriesNoFallback(a, b, custom) ==
    IF custom
    THEN IF OrderOf(a) # 0 /\ OrderOf(b) # 0 THEN OrderOf(a) - OrderOf(b)
         ELSE IF OrderOf(a) # 0 THEN -1
         ELSE IF OrderOf(b) # 0 THEN 1
         ELSE 0
    ELSE (IF OrderOf(a) # 0 THEN OrderOf(a) ELSE 99)
         - (IF OrderOf(b) # 0 THEN OrderOf(b) ELSE 99)

\* a comparator that puts a category of the table first whatever the other
compareCategoriesStandardFirst(a, b, custom) ==
    IF custom
    THEN IF OrderOf(a) # 0 THEN -1
         ELSE IF OrderOf(b) # 0 THEN 1
         ELSE localeCompare(a, b)
    ELSE (IF OrderOf(a) # 0 THEN OrderOf(a) ELSE 99)
         - (IF OrderOf(b) # 0 THEN OrderOf(b) ELSE 99)

\* the comparator of lines 49-66
compareCategories(a, b, custom) ==
    IF custom
    THEN IF OrderOf(a) # 0 /\ OrderOf(b) # 0 THEN OrderOf(a) - OrderOf(b)
         ELSE IF OrderOf(a) # 0 THEN -1
         ELSE IF OrderOf(b) # 0 THEN 1
         ELSE localeCompare(a, b)
    ELSE (IF OrderOf(a) # 0 THEN OrderOf(a) ELSE 99)
         - (IF OrderOf(b) # 0 THEN OrderOf(b) ELSE 99)

\* x put into the sorted sequence before the first element that must follow it
RECURSIVE InsertCategory(_, _, _)
InsertCategory(x, sorted, custom) ==
    IF sorted = <<>> THEN <<x>>
    ELSE IF compareCategories(x, Head(sorted), custom) < 0 THEN <<x>> \o sorted
    ELSE <<Head(sorted)>> \o InsertCategory(x, Tail(sorted), custom)

\* Array.prototype.sort with the comparator: a stable sort
RECURSIVE SortCategories(_, _)
SortCategories(keys, custom) ==
    IF keys = <<>> THEN <<>>
    ELSE InsertCategory(keys[Len(keys)],
                        SortCategories(SubSeq(keys, 1, Len(keys) - 1), custom),
                        custom)

\* line 32: acc.category || 'Otros'
CategoryKey(acc) == IF acc.category = "" THEN "Otros" ELSE acc.category

\* line 28
FilterByType(lines, type) ==
    SelectSeq(lines, LAMBDA a : a.type = type /\ ~a.isGroup)

\* the categories in the order of their first line
RECURSIVE InsertionKeys(_)
InsertionKeys(filtered) ==
    IF filtered = <<>> THEN <<>>
    ELSE LET prev == InsertionKeys(SubSeq(filtered, 1, Len(filtered) - 1))
             cat == CategoryKey(filtered[Len(filtered)])
         IN  IF \E i \in 1..Len(prev) : prev[i] = cat THEN prev
             ELSE Append(prev, cat)

\* the category labels of the model that are canonical array indices
ArrayIndexKeys == ("2" :> 2) @@ ("10" :> 10)

\* the index keys S in ascending numeric order
RECURSIVE AscendingKeys(_)
AscendingKeys(S) ==
    IF S = {} THEN <<>>
    ELSE LET k == CHOOSE k \in S : \A o \in S : ArrayIndexKeys[k] <= ArrayIndexKeys[o]
         IN  <<k>> \o AscendingKeys(S \ {k})

\* Object.keys(groups): the keys that are array indices first, in ascending
\* numeric order, then the other keys in the order of their creation
GroupKeys(filtered) ==
    LET keys == InsertionKeys(filtered)
        indices == {keys[i] : i \in 1..Len(keys)} \cap DOMAIN ArrayIndexKeys
    IN  AscendingKeys(indices)
        \o SelectSeq(keys, LAMBDA k : k \notin DOMAIN ArrayIndexKeys)

\* a reduce that adds the magnitudes of the balances
RECURSIVE SumBalanceAbs(_)
SumBalanceAbs(lines) ==
    IF lines = <<>> THEN 0
    ELSE JsAdd(SumBalanceAbs(SubSeq(lines, 1, Len(lines) - 1)),
               JsAbs(lines[Len(lines)].balance))

\* reduce((sum, a) => sum + a.balance, 0)
RECURSIVE SumBalance(_)
SumBalance(lines) ==
    IF lines = <<>> THEN 0
    ELSE JsAdd(SumBalance(SubSeq(lines, 1, Len(lines) - 1)), lines[Len(lines)].balance)

\* lines 27-73
groupByTypeAndCategory(lines, type, custom) ==
    LET filtered == FilterByType(lines, type)
        sortedCategories == SortCategories(GroupKeys(filtered), custom)
    IN  [i \in 1..Len(sortedCategories) |->
            LET members == SelectSeq(filtered,
                              LAMBDA a : CategoryKey(a) = sortedCategories[i])
            IN  [name |-> sortedCategories[i],
                 accounts |-> members,
                 total |-> SumBalance(members)]]

\* reduce((s, g) => s + g.total, 0)
RECURSIVE SumTotals(_)
SumTotals(groups) ==
    IF groups = <<>> THEN 0
    ELSE JsAdd(SumTotals(SubSeq(groups, 1, Len(groups) - 1)), groups[Len(groups)].total)

\* lines 75-96
\* the names every object literal inherits from Object.prototype
ObjectPrototypeKeys ==
    {"constructor", "toString", "toLocaleString", "valueOf", "hasOwnProperty",
     "isPrototypeOf", "propertyIsEnumerable", "__proto__"}

\* lines 31-35: groups starts as {}, so for such a category groups[cat] is
\* the inherited member, "if (!groups[cat])" does not create the list and
\* groups[cat].push(acc) throws a TypeError
GroupingThrows(lines, type) ==
    \E i \in 1..Len(lines) :
        /\ lines[i].type = type
        /\ ~lines[i].isGroup
        /\ CategoryKey(lines[i]) \in ObjectPrototypeKeys

\* lines 75-79: the five calls
StatementThrows(lines) ==
    \E type \in {ASSET, LIABILITY, EQUITY, REVENUE, EXPENSE} :
        GroupingThrows(lines, type)

\* thrown: the memo's callback threw and the render has no statement
GroupedFinancials(lines, custom) ==
    IF StatementThrows(lines) THEN [thrown |-> TRUE] ELSE
    LET assets == groupByTypeAndCategory(lines, ASSET, custom)
        liabilities == groupByTypeAndCategory(lines, LIABILITY, custom)
        equity == groupByTypeAndCategory(lines, EQUITY, custom)
        revenue == groupByTypeAndCategory(lines, REVENUE, custom)
        expenses == groupByTypeAndCategory(lines, EXPENSE, custom)
    IN  [thrown |-> FALSE,
         assets |-> assets, assetsTotal |-> SumTotals(assets),
         liabilities |-> liabilities, liabilitiesTotal |-> SumTotals(liabilities),
         equity |-> equity, equityTotal |-> SumTotals(equity),
         revenue |-> revenue, revenueTotal |-> SumTotals(revenue),
         expenses |-> expenses, expenseTotal |-> SumTotals(expenses),
         netResult |-> JsSub(JsAbs(SumTotals(revenue)), JsAbs(SumTotals(expenses)))]

\* the memoised value of the current render
groupedFinancials ==
    GroupedFinancials(accounts, hasCustomModel(client.customRegulations, globalModel))

\* part_000:328-335 and 886: liabilitiesTotal + (equityTotal + netResult)
totalPasivoPN(g) == JsAdd(g.liabilitiesTotal, JsAdd(g.equityTotal, g.netResult))

----------------------------------------------------------------------------
(* inconsistencies (part_000:100-114) *)

\* Number.prototype.toFixed(2) of an amount
toFixed2(x) ==
    IF x = NaN THEN "NaN"
    ELSE LET a == IF x < 0 THEN -x ELSE x
             cents == a % Scale
         IN  (IF x < 0 THEN "-" ELSE "") \o ToString(a \div Scale) \o "."
             \o (IF cents < 10 THEN "0" ELSE "") \o ToString(cents)

\* a checker whose tolerance test is ">= 1"
InconsistenciesAtLeast(lines) ==
    LET grandTotal == SumBalance(SelectSeq(lines, LAMBDA a : ~a.isGroup))
    IN  IF grandTotal # NaN /\ JsAbs(grandTotal) >= 1 * Scale
        THEN <<[id |-> "diff-balance",
                severity |-> "high",
                message |-> "El balance no da cero (Diferencia: "
                            \o toFixed2(grandTotal) \o "). Revisar asientos.",
                relatedAccountIds |-> <<>>]>>
        ELSE <<>>

Inconsistencies(lines) ==
    LET grandTotal == SumBalance(SelectSeq(lines, LAMBDA a : ~a.isGroup))
    IN  IF JsGt(JsAbs(grandTotal), 1 * Scale)
        THEN <<[id |-> "diff-balance",
                severity |-> "high",
                message |-> "El balance no da cero (Diferencia: "
                            \o toFixed2(grandTotal) \o "). Revisar asientos.",
                relatedAccountIds |-> <<>>]>>
        ELSE <<>>

inconsistencies == Inconsistencies(accounts)

----------------------------------------------------------------------------
(* The workspace: state and handlers of FinancialWorkspace, with App's     *)
(* saveClientData behind onSave.                                           *)

Slots == 1..MaxSlots

RegSlots == 1..MaxRegSlots

WorkbenchTab == {"UPLOAD", "CLASSIFICATION", "REPORTS", "EXPORT"}

\* part_001:472 and part_002:27
ViewState == {"DASHBOARD", "CLIENT_WORKBENCH", "REGULATIONS", "SETTINGS"}

\* App while it shows the workspace of a client: no model import running;
\* importModel is the position of the running handleImportModel call and
\* storedModel the item auditai_global_model of localStorage
AppInWorkbench ==
    [view |-> "CLIENT_WORKBENCH", isSaved |-> FALSE, isImportingModel |-> FALSE,
     importModel |-> "idle", storedModel |-> ""]

NoFile == [name |-> "", sheet |-> FALSE, rows |-> <<>>]

\* part_002:44-53 and 77-86: a client starts without accounts and files
NewClient(customRegulations) ==
    [accounts |-> <<>>, customRegulations |-> customRegulations, files |-> <<>>]

NoMapping ==
    [codeIndex |-> -1, nameIndex |-> -1, debitIndex |-> -1, creditIndex |-> -1,
     balanceIndex |-> -1, startRow |-> 0]

NoResponse == [ok |-> TRUE, items |-> <<>>]

IdleFin ==
    [pc |-> "idle", client |-> NewClient(""), file |-> NoFile,
     mapping |-> NoMapping, raw |-> <<>>]

IdleReg == [pc |-> "idle", client |-> NewClient("")]

\* the record of the last finished import: how parseFinancialDocument ended
\* (logic: the rule text classifyAccounts put in its prompt)
\* (parse), the sheet and the mapping it worked on, the raw lines, how the
\* classification oracle answered (oracle, resp), the lines classifyAccounts
\* returned (out), whether an alert was shown and whether setAccounts and
\* onSave were called (replaced)
NoImport ==
    [parse |-> "none", file |-> NoFile, mapping |-> NoMapping, raw |-> <<>>,
     logic |-> "none", oracle |-> "none", resp |-> NoResponse, out |-> <<>>,
     alerted |-> FALSE, replaced |-> FALSE]

InFlightFin == {s \in Slots : fin[s].pc # "idle"}

InFlightReg == {s \in RegSlots : reg[s].pc # "idle"}

\* a new call runs in the first free slot
FirstIdle(procs, s) ==
    procs[s].pc = "idle" /\ \A r \in 1..(s - 1) : procs[r].pc # "idle"

\* the component renders: with no error boundary above it (part_002), a
\* render that throws takes the whole tree, and every control, off the page
Mounted == ~StatementThrows(accounts)

\* part_000:118-125 and 178.  The button that opens the picker lies in the
\* UPLOAD tab under the loading overlay (lines 460-488).
handleFinancialUpload(s, file) ==
    /\ Mounted
    /\ FirstIdle(fin, s)
    /\ tab = "UPLOAD"
    /\ ~loading
    /\ nextId + MaxRows * (Cardinality(InFlightFin) + 1) <= MaxIds
    /\ loading' = TRUE
    /\ fin' = [fin EXCEPT ![s] = [IdleFin EXCEPT !.pc = "reading",
                                                 !.client = client,
                                                 !.file = file]]
    /\ UNCHANGED <<app, accounts, tab, client, globalModel, reg, lastImport, nextId, edits>>

\* lines 163-169, and 172-176 for the reader: the alert, setLoading(false)
FinFails(s, parse, mapping) ==
    /\ loading' = FALSE
    /\ fin' = [fin EXCEPT ![s] = IdleFin]
    /\ lastImport' = [NoImport EXCEPT !.parse = parse, !.file = fin[s].file,
                                      !.mapping = mapping, !.alerted = TRUE]
    /\ UNCHANGED <<app, accounts, tab, client, globalModel, reg, nextId, edits>>

\* lines 172-176: reader.onerror
FinReaderError(s) ==
    /\ fin[s].pc = "reading"
    /\ FinFails(s, "readerror", NoMapping)

\* lines 127-133: reader.onload up to the await of parseFinancialDocument
FinReaderLoad(s) ==
    /\ fin[s].pc = "reading"
    /\ fin' = [fin EXCEPT ![s].pc = "parsing"]
    /\ UNCHANGED <<app, accounts, loading, tab, client, globalModel, reg, lastImport,
                   nextId, edits>>

\* parseFinancialDocument throws (part_001:254-257): the oracle call fails or
\* its answer is not JSON
FinParseThrows(s) ==
    /\ fin[s].pc = "parsing"
    /\ FinFails(s, "threw", NoMapping)

\* a caller that classifies whatever the extraction returned
FinParsedUnchecked(s, mapping, rawAccounts) ==
    /\ fin' = [fin EXCEPT ![s].pc = "classifying", ![s].mapping = mapping,
                          ![s].raw = rawAccounts]
    /\ UNCHANGED <<app, accounts, loading, tab, client, globalModel, reg,
                   lastImport, nextId, edits>>

\* lines 133-144 after parseFinancialDocument returned rawAccounts
FinParsed(s, mapping, rawAccounts) ==
    IF Len(rawAccounts) = 0
    THEN FinFails(s, "empty", mapping)
    ELSE /\ fin' = [fin EXCEPT ![s].pc = "classifying", ![s].mapping = mapping,
                               ![s].raw = rawAccounts]
         /\ UNCHANGED <<app, accounts, loading, tab, client, globalModel, reg,
                        lastImport, nextId, edits>>

\* the spreadsheet strategy returns, the oracle having answered mapping
FinParseSheet(s, mapping) ==
    /\ fin[s].pc = "parsing"
    /\ fin[s].file.sheet
    /\ FinParsed(s, mapping, extractedLines(fin[s].file.rows, mapping))

\* the full-parse strategy returns the array parsedData of the oracle
\* (part_001:248-252)
FinParseOther(s, parsedData) ==
    /\ fin[s].pc = "parsing"
    /\ ~fin[s].file.sheet
    /\ FinParsed(s, NoMapping, parsedData)

\* an import that adds its lines to the lines there are
FinClassifiedAppends(s, resp) ==
    /\ fin[s].pc = "classifying"
    /\ LET classifiedAccounts == classifyAccounts(fin[s].raw, resp, nextId)
       IN  /\ accounts' = accounts \o classifiedAccounts
           /\ client' = [fin[s].client EXCEPT
                            !.accounts = accounts \o classifiedAccounts,
                            !.files = Append(@, fin[s].file.name)]
           /\ lastImport' = [parse |-> "lines", file |-> fin[s].file,
                             mapping |-> fin[s].mapping, raw |-> fin[s].raw,
                             logic |-> activeLogic(fin[s].client.customRegulations,
                                                   globalModel),
                             oracle |-> IF resp.ok THEN "ok" ELSE "failed",
                             resp |-> resp, out |-> classifiedAccounts,
                             alerted |-> FALSE, replaced |-> TRUE]
    /\ nextId' = nextId + Len(fin[s].raw)
    /\ tab' = "CLASSIFICATION"
    /\ loading' = FALSE
    /\ fin' = [fin EXCEPT ![s] = IdleFin]
    /\ UNCHANGED <<app, globalModel, reg, edits>>

\* lines 147-169 after classifyAccounts returned; the handler's client is
\* the one of the render that started it, and onSave is saveClientData
\* (part_002:63-68)
FinClassified(s, resp) ==
    /\ fin[s].pc = "classifying"
    /\ LET classifiedAccounts == classifyAccounts(fin[s].raw, resp, nextId)
       IN  /\ accounts' = classifiedAccounts
           /\ client' = [fin[s].client EXCEPT
                            !.accounts = classifiedAccounts,
                            !.files = Append(@, fin[s].file.name)]
           /\ lastImport' = [parse |-> "lines", file |-> fin[s].file,
                             mapping |-> fin[s].mapping, raw |-> fin[s].raw,
                             logic |-> activeLogic(fin[s].client.customRegulations,
                                                   globalModel),
                             oracle |-> IF resp.ok THEN "ok" ELSE "failed",
                             resp |-> resp, out |-> classifiedAccounts,
                             alerted |-> FALSE, replaced |-> TRUE]
    /\ nextId' = nextId + Len(fin[s].raw)
    /\ tab' = "CLASSIFICATION"
    /\ loading' = FALSE
    /\ fin' = [fin EXCEPT ![s] = IdleFin]
    /\ UNCHANGED <<app, globalModel, reg, edits>>

\* part_000:182-189 and 213.  The header's button (lines 425-436) lies
\* outside the overlay; the buttons of lines 540 and 586 lie under it.
handleRegulationUpload(s) ==
    /\ Mounted
    /\ FirstIdle(reg, s)
    /\ loading' = TRUE
    /\ reg' = [reg EXCEPT ![s] = [pc |-> "reading", client |-> client]]
    /\ UNCHANGED <<app, accounts, tab, client, globalModel, fin, lastImport, nextId, edits>>

\* the reader fails: the handler sets no reader.onerror
RegReaderError(s) ==
    /\ reg[s].pc = "reading"
    /\ reg' = [reg EXCEPT ![s] = IdleReg]
    /\ UNCHANGED <<app, accounts, loading, tab, client, globalModel, fin, lastImport,
                   nextId, edits>>

\* lines 191-197: reader.onload up to the await of extractRegulatoryRules
RegReaderLoad(s) ==
    /\ reg[s].pc = "reading"
    /\ reg' = [reg EXCEPT ![s].pc = "extracting"]
    /\ UNCHANGED <<app, accounts, loading, tab, client, globalModel, fin, lastImport,
                   nextId, edits>>

\* lines 199-204 and 208-211: extractRegulatoryRules returned extractedRules
RegExtracted(s, extractedRules) ==
    /\ reg[s].pc = "extracting"
    /\ client' = [reg[s].client EXCEPT !.customRegulations = extractedRules]
    /\ loading' = FALSE
    /\ reg' = [reg EXCEPT ![s] = IdleReg]
    /\ UNCHANGED <<app, accounts, tab, globalModel, fin, lastImport, nextId, edits>>

\* lines 206-211: extractRegulatoryRules threw (part_001:45-48)
RegExtractThrows(s) ==
    /\ reg[s].pc = "extracting"
    /\ loading' = FALSE
    /\ reg' = [reg EXCEPT ![s] = IdleReg]
    /\ UNCHANGED <<app, accounts, tab, client, globalModel, fin, lastImport, nextId, edits>>

\* the tab buttons of the header (lines 440-452)
setTab(t) ==
    /\ Mounted
    /\ tab # t
    /\ tab' = t
    /\ UNCHANGED <<app, accounts, loading, client, globalModel, fin, reg, lastImport,
                   nextId, edits>>

----------------------------------------------------------------------------
(* The manual editor (part_000:217-262).  Its controls lie in the           *)
(* CLASSIFICATION tab under the loading overlay.                           *)

EditorOpen == Mounted /\ tab = "CLASSIFICATION" /\ ~loading

\* lines 218-229
NewAccount(id) ==
    AccountLine(id, "", "Nueva Cuenta", 0, 0, 0, UNCLASSIFIED, "Otros", FALSE, TRUE)

\* an insertion at the end: [...prev, newAccount]
AddAccountLast(lines, id) == lines \o <<NewAccount(id)>>

\* line 230
AddAccount(lines, id) == <<NewAccount(id)>> \o lines

\* a deletion by position: prev.filter((a, index) => index + 1 !== id)
DeleteAccountAt(lines, id) ==
    IF id \in 1..Len(lines)
    THEN SubSeq(lines, 1, id - 1) \o SubSeq(lines, id + 1, Len(lines))
    ELSE lines

\* line 235
DeleteAccount(lines, id) == SelectSeq(lines, LAMBDA a : a.id # id)

\* an edit that leaves manualOverride as it was
EditedLineKeepsFlag(acc, field, value) ==
    LET updated == [acc EXCEPT ![field] = value]
    IN  IF field = "debit" \/ field = "credit"
        THEN LET d == IF field = "debit" THEN value ELSE OrZero(updated.debit)
                 c == IF field = "credit" THEN value ELSE OrZero(updated.credit)
             IN  [updated EXCEPT !.balance = JsSub(d, c)]
        ELSE updated

\* an edit that also re-derives debit and credit from an edited balance
EditedLineRederives(acc, field, value) ==
    LET updated == [[acc EXCEPT ![field] = value] EXCEPT !.manualOverride = TRUE]
    IN  IF field = "debit" \/ field = "credit"
        THEN LET d == IF field = "debit" THEN value ELSE OrZero(updated.debit)
                 c == IF field = "credit" THEN value ELSE OrZero(updated.credit)
             IN  [updated EXCEPT !.balance = JsSub(d, c)]
        ELSE IF field = "balance"
        THEN [updated EXCEPT !.debit = IF OrZero(value) > 0 THEN value ELSE 0,
                             !.credit = IF OrZero(value) < 0 THEN -value ELSE 0]
        ELSE updated

\* lines 242-248, for the line acc whose id matched
EditedLine(acc, field, value) ==
    LET updated == [[acc EXCEPT ![field] = value] EXCEPT !.manualOverride = TRUE]
    IN  IF field = "debit" \/ field = "credit"
        THEN LET d == IF field = "debit" THEN value ELSE OrZero(updated.debit)
                 c == IF field = "credit" THEN value ELSE OrZero(updated.credit)
             IN  [updated EXCEPT !.balance = JsSub(d, c)]
        ELSE updated

\* lines 240-251
ManualEdit(lines, id, field, value) ==
    [i \in 1..Len(lines) |->
        IF lines[i].id = id THEN EditedLine(lines[i], field, value) ELSE lines[i]]

handleAddAccount ==
    /\ EditorOpen
    /\ edits < MaxEdits
    /\ nextId < MaxIds
    /\ Len(accounts) < MaxLines
    /\ accounts' = AddAccount(accounts, nextId + 1)
    /\ nextId' = nextId + 1
    /\ edits' = edits + 1
    /\ UNCHANGED <<app, loading, tab, client, globalModel, fin, reg, lastImport>>

\* the delete button of a row, the confirm dialog accepted
handleDeleteAccount(id) ==
    /\ EditorOpen
    /\ edits < MaxEdits
    /\ accounts' = DeleteAccount(accounts, id)
    /\ edits' = edits + 1
    /\ UNCHANGED <<app, loading, tab, client, globalModel, fin, reg, lastImport, nextId>>

\* an input of the row of line id changes (lines 634-699)
handleManualEdit(id, field, value) ==
    /\ EditorOpen
    /\ edits < MaxEdits
    /\ accounts' = ManualEdit(accounts, id, field, value)
    /\ edits' = edits + 1
    /\ UNCHANGED <<app, loading, tab, client, globalModel, fin, reg, lastImport, nextId>>

\* lines 254-262
handleSaveChanges ==
    /\ EditorOpen
    /\ client.accounts # accounts
    /\ client' = [client EXCEPT !.accounts = accounts]
    /\ UNCHANGED <<app, accounts, loading, tab, globalModel, fin, reg, lastImport,
                   nextId, edits>>

----------------------------------------------------------------------------
(* Inputs of the workspace: the documents the user picks, the answers of   *)
(* the oracle and the values typed into the editor.                        *)

Mapping(code, name, debit, credit, balance, start) ==
    [codeIndex |-> code, nameIndex |-> name, debitIndex |-> debit,
     creditIndex |-> credit, balanceIndex |-> balance, startRow |-> start]

RawLine(code, name, debit, credit, balance) ==
    [code |-> code, name |-> name, debit |-> debit, credit |-> credit,
     balance |-> balance]

Item(id, type, category, isGroup) ==
    [id |-> id, type |-> type, category |-> category, isGroup |-> isGroup]

\* a sheet of two rows <<name, amount, amount>>, the second without a name,
\* and a document that is no spreadsheet
SampleFiles ==
    {[name |-> "libro.xlsx", sheet |-> TRUE,
      rows |-> << << <<"C">>, <<"-", "5">>, <<"2">> >>,
                  << <<" ">>, <<"5">>, <<"5">> >> >>],
     [name |-> "balance.pdf", sheet |-> FALSE, rows |-> <<>>]}

\* debit and credit columns; no name column
SampleMappings == {Mapping(-1, 0, 1, 2, -1, 0), Mapping(-1, -1, 1, 2, -1, 0)}

\* what the oracle extracts from a document that is no spreadsheet: nothing,
\* or a line with its three amounts and a line with a balance only, no code
\* and no name (NaN stands for an absent amount)
SampleParsedData ==
    {<<>>,
     <<RawLine("1", "Caja", 5 * Scale, 0, 5 * Scale),
       RawLine("", "", NaN, NaN, 3 * Scale)>>}

\* the answers of the classification oracle
SampleResponses ==
    {[ok |-> FALSE, items |-> <<>>],
     [ok |-> TRUE, items |-> <<Item(0, ASSET, "Caja y Bancos", FALSE)>>],
     [ok |-> TRUE, items |-> <<Item(0, "RESULTADOS", "", FALSE),
                               Item(1, LIABILITY, "Zeta", TRUE)>>]}

\* the texts extractRegulatoryRules returns: response.text || ""
SampleRules == {"", "Rubros: Caja y Bancos, Zeta"}

GlobalModels == {"", "ACTIVO - Caja y Bancos"}

\* the values the inputs of a row hand to handleManualEdit (lines 634-699):
\* parseFloat(v) || 0 for debit and credit, parseFloat(v) for balance, an
\* option of the select for type
SampleEditValues(field) ==
    CASE field = "code" -> {"1.1"}
      [] field = "name" -> {"Banco"}
      [] field = "category" -> {"", "Zeta", "constructor"}
      [] field = "debit" -> {0, -3 * Scale}
      [] field = "credit" -> {7 * Scale}
      [] field = "balance" -> {NaN, -50 * Scale}
      [] field = "type" -> {ASSET, UNCLASSIFIED}

EditableFields == {"code", "name", "category", "debit", "credit", "balance", "type"}

LineIds(lines) == {lines[i].id : i \in 1..Len(lines)}

----------------------------------------------------------------------------
(* The workspace from the moment it is mounted for a client *)

Init ==
    /\ client \in {NewClient(r) : r \in SampleRules}
    /\ accounts = client.accounts
    /\ globalModel \in GlobalModels
    /\ loading = FALSE
    /\ tab = "UPLOAD"
    /\ fin = [s \in Slots |-> IdleFin]
    /\ reg = [s \in RegSlots |-> IdleReg]
    /\ lastImport = NoImport
    /\ nextId = 0
    /\ edits = 0
    /\ app = AppInWorkbench

\* a financial import, from the pick of a file to its end
NextImport ==
    \/ \E s \in Slots, file \in SampleFiles : handleFinancialUpload(s, file)
    \/ \E s \in Slots : FinReaderError(s)
    \/ \E s \in Slots : FinReaderLoad(s)
    \/ \E s \in Slots : FinParseThrows(s)
    \/ \E s \in Slots, mapping \in SampleMappings : FinParseSheet(s, mapping)
    \/ \E s \in Slots, parsedData \in SampleParsedData : FinParseOther(s, parsedData)
    \/ \E s \in Slots, resp \in SampleResponses : FinClassified(s, resp)

\* a regulation upload, from the pick of a file to its end
NextRegulation ==
    \/ \E s \in RegSlots : handleRegulationUpload(s)
    \/ \E s \in RegSlots : RegReaderError(s)
    \/ \E s \in RegSlots : RegReaderLoad(s)
    \/ \E s \in RegSlots, rules \in SampleRules : RegExtracted(s, rules)
    \/ \E s \in RegSlots : RegExtractThrows(s)

\* the manual editor
NextEditor ==
    \/ handleAddAccount
    \/ \E id \in LineIds(accounts) : handleDeleteAccount(id)
    \/ \E id \in LineIds(accounts), field \in EditableFields :
          \E value \in SampleEditValues(field) : handleManualEdit(id, field, value)

NextTab == \E t \in WorkbenchTab : setTab(t)

\* The life of the line set: imports, manual edits, saves.
Next == NextImport \/ NextEditor \/ NextTab \/ handleSaveChanges

Spec == Init /\ [][Next]_vars

\* Overlapping uploads: financial imports and regulation uploads of one
\* client, the editor left alone.
NextUploads == NextImport \/ NextRegulation \/ NextTab

SpecUploads == Init /\ [][NextUploads]_vars

\* The same uploads of a client without rules, where every file read and
\* every call to the oracle the handlers wait for ends, one way or the
\* other; the user's own moves are under no obligation.
InitLoading == Init /\ client = NewClient("") /\ globalModel = ""

ExternalCallsEnd ==
    /\ \A s \in Slots :
          /\ WF_vars(FinReaderError(s) \/ FinReaderLoad(s))
          /\ WF_vars(\/ FinParseThrows(s)
                     \/ \E mapping \in SampleMappings : FinParseSheet(s, mapping)
                     \/ \E parsedData \in SampleParsedData : FinParseOther(s, parsedData))
          /\ WF_vars(\E resp \in SampleResponses : FinClassified(s, resp))
    /\ \A s \in RegSlots :
          /\ WF_vars(RegReaderError(s) \/ RegReaderLoad(s))
          /\ WF_vars(\/ \E rules \in SampleRules : RegExtracted(s, rules)
                     \/ RegExtractThrows(s))

SpecLoading == InitLoading /\ [][NextUploads]_vars /\ ExternalCallsEnd

----------------------------------------------------------------------------
(* The settings view of App (part_002:27-115 and 195-260): the global      *)
(* model, typed, saved or imported from a spreadsheet.                     *)

\* the sidebar's buttons and the selection of a client (part_002:133-168)
setView(v) ==
    /\ app.view # v
    /\ app' = [app EXCEPT !.view = v]
    /\ UNCHANGED <<accounts, loading, tab, client, globalModel, fin, reg,
                   lastImport, nextId, edits>>

\* the textarea of part_002:232-234
setGlobalModel(text) ==
    /\ app.view = "SETTINGS"
    /\ globalModel # text
    /\ globalModel' = text
    /\ UNCHANGED <<app, accounts, loading, tab, client, fin, reg, lastImport,
                   nextId, edits>>

\* part_002:70-74
saveGlobalModel ==
    /\ app.view = "SETTINGS"
    /\ app' = [app EXCEPT !.storedModel = globalModel, !.isSaved = TRUE]
    /\ UNCHANGED <<accounts, loading, tab, client, globalModel, fin, reg,
                   lastImport, nextId, edits>>

\* the timer of part_002:73
SavedTimeout ==
    /\ app.isSaved
    /\ app' = [app EXCEPT !.isSaved = FALSE]
    /\ UNCHANGED <<accounts, loading, tab, client, globalModel, fin, reg,
                   lastImport, nextId, edits>>

\* part_002:94-99 and 109: the button is disabled while isImportingModel
handleImportModel ==
    /\ app.view = "SETTINGS"
    /\ ~app.isImportingModel
    /\ app' = [app EXCEPT !.isImportingModel = TRUE, !.importModel = "reading"]
    /\ UNCHANGED <<accounts, loading, tab, client, globalModel, fin, reg,
                   lastImport, nextId, edits>>

\* the reader fails: the handler sets no reader.onerror, no code runs
ModelReaderError ==
    /\ app.importModel = "reading"
    /\ app' = [app EXCEPT !.importModel = "idle"]
    /\ UNCHANGED <<accounts, loading, tab, client, globalModel, fin, reg,
                   lastImport, nextId, edits>>

\* part_002:101-104: reader.onload up to the await
ModelReaderLoad ==
    /\ app.importModel = "reading"
    /\ app' = [app EXCEPT !.importModel = "extracting"]
    /\ UNCHANGED <<accounts, loading, tab, client, globalModel, fin, reg,
                   lastImport, nextId, edits>>

\* part_002:104-107: extractStructureFromExcel returned extractedModel
ModelExtracted(extractedModel) ==
    /\ app.importModel = "extracting"
    /\ globalModel' = extractedModel
    /\ app' = [app EXCEPT !.isImportingModel = FALSE, !.importModel = "idle"]
    /\ UNCHANGED <<accounts, loading, tab, client, fin, reg, lastImport,
                   nextId, edits>>

\* extractStructureFromExcel threw (part_001:102-105): the promise of the
\* async onload is rejected, outside the try of part_002:99-114, and the
\* rest of the callback does not run
ModelExtractThrows ==
    /\ app.importModel = "extracting"
    /\ app' = [app EXCEPT !.importModel = "idle"]
    /\ UNCHANGED <<accounts, loading, tab, client, globalModel, fin, reg,
                   lastImport, nextId, edits>>

\* part_002:27-32 and 35-60: the stored model is loaded on mount
InitSettings ==
    /\ client = NewClient("")
    /\ accounts = <<>>
    /\ globalModel \in GlobalModels
    /\ loading = FALSE
    /\ tab = "UPLOAD"
    /\ fin = [s \in Slots |-> IdleFin]
    /\ reg = [s \in RegSlots |-> IdleReg]
    /\ lastImport = NoImport
    /\ nextId = 0
    /\ edits = 0
    /\ app = [view |-> "DASHBOARD", isSaved |-> FALSE, isImportingModel |-> FALSE,
              importModel |-> "idle", storedModel |-> globalModel]

NextSettings ==
    \/ \E v \in ViewState : setView(v)
    \/ \E text \in GlobalModels : setGlobalModel(text)
    \/ saveGlobalModel
    \/ SavedTimeout
    \/ handleImportModel
    \/ ModelReaderError
    \/ ModelReaderLoad
    \/ \E extractedModel \in GlobalModels : ModelExtracted(extractedModel)
    \/ ModelExtractThrows

\* the file read and the call to the oracle end, one way or the other, and
\* the timer fires
ModelCallsEnd ==
    /\ WF_vars(ModelReaderError \/ ModelReaderLoad)
    /\ WF_vars(ModelExtractThrows
               \/ \E extractedModel \in GlobalModels : ModelExtracted(extractedModel))
    /\ WF_vars(SavedTimeout)

SpecSettings == InitSettings /\ [][NextSettings]_vars /\ ModelCallsEnd

----------------------------------------------------------------------------
(* classifyAccounts on its own: an import that has its raw lines and       *)
(* awaits the classification oracle, for every answer of the oracle.       *)

\* raw lines as the two strategies produce them: a sheet row, an oracle line
\* with absent fields, a line whose balance is 0
RawLines ==
    {RawLine("1", "Caja", 5 * Scale, 0, 5 * Scale),
     RawLine("", "", NaN, NaN, NaN),
     RawLine("2", "Banco", 0, 3 * Scale, 0)}

SeqsUpTo(S, n) == UNION {[1..k -> S] : k \in 0..n}

RawInputs == SeqsUpTo(RawLines, MaxRows) \ {<<>>}

\* what an item says of a line: a type of the enum, none, or one outside the
\* enum; a category or none; isGroup
ItemShapes ==
    {<<ASSET, "Zeta", FALSE>>, <<ASSET, "", TRUE>>, <<"", "Zeta", TRUE>>,
     <<"", "", FALSE>>, <<"RESULTADOS", "Zeta", FALSE>>}

\* the items of an answer: the ids of the raw lines and one past them
OracleItems ==
    {Item(id, shape[1], shape[2], shape[3]) : id \in 0..MaxRows, shape \in ItemShapes}

OracleResponses ==
    {[ok |-> FALSE, items |-> <<>>]}
    \cup {[ok |-> TRUE, items |-> items] : items \in SeqsUpTo(OracleItems, MaxItems)}

Classifying(rawAccounts) ==
    [s \in Slots |->
        IF s = 1
        THEN [IdleFin EXCEPT !.pc = "classifying",
                             !.file = [name |-> "balance.pdf", sheet |-> FALSE,
                                       rows |-> <<>>],
                             !.raw = rawAccounts]
        ELSE IdleFin]

InitMerge ==
    /\ client = NewClient("")
    /\ accounts = <<>>
    /\ globalModel = ""
    /\ loading = TRUE
    /\ tab = "UPLOAD"
    /\ fin \in {Classifying(rawAccounts) : rawAccounts \in RawInputs}
    /\ reg = [s \in RegSlots |-> IdleReg]
    /\ lastImport = NoImport
    /\ nextId = 0
    /\ edits = 0
    /\ app = AppInWorkbench

NextMerge ==
    \E s \in InFlightFin : \E resp \in OracleResponses : FinClassified(s, resp)

SpecMerge == InitMerge /\ [][NextMerge]_vars

----------------------------------------------------------------------------
(* The statement and the checker on their own: a workspace mounted on any  *)
(* saved line set, the editor open.                                        *)

StatementCategories == {"Caja y Bancos", "Zeta"}

\* amounts about the checker's tolerance of 1
StatementAmounts == {-1 * Scale, 1 * Scale, 1 * Scale + 1}

\* a saved line: the debit or the credit side holds the balance
SavedLine(type, category, isGroup, balance) ==
    AccountLine(0, "", "Cuenta", IF balance > 0 THEN balance ELSE 0,
                IF balance < 0 THEN -balance ELSE 0, balance, type, category,
                isGroup, FALSE)

SavedLines ==
    {SavedLine(type, category, isGroup, balance) :
        type \in AccountType, category \in StatementCategories,
        isGroup \in BOOLEAN, balance \in StatementAmounts}

\* the lines numbered by their position
Numbered(lines) == [i \in 1..Len(lines) |-> [lines[i] EXCEPT !.id = i]]

\* Asset "Cash" 100, Liability "Loan" -40, Equity "Capital" -60
BalancedExample ==
    <<[SavedLine(ASSET, "Caja y Bancos", FALSE, 100 * Scale) EXCEPT !.name = "Cash"],
      [SavedLine(LIABILITY, "Deudas Bancarias", FALSE, -40 * Scale) EXCEPT !.name = "Loan"],
      [SavedLine(EQUITY, "Capital Social", FALSE, -60 * Scale) EXCEPT !.name = "Capital"]>>

SavedLineSets ==
    {Numbered(lines) : lines \in SeqsUpTo(SavedLines, MaxLines) \cup {BalancedExample}}

InitStatement ==
    /\ \E lines \in SavedLineSets, rules \in SampleRules :
          /\ client = [NewClient(rules) EXCEPT !.accounts = lines]
          /\ accounts = lines
          /\ nextId = Len(lines)
    /\ globalModel = ""
    /\ loading = FALSE
    /\ tab = "CLASSIFICATION"
    /\ fin = [s \in Slots |-> IdleFin]
    /\ reg = [s \in RegSlots |-> IdleReg]
    /\ lastImport = NoImport
    /\ edits = 0
    /\ app = AppInWorkbench

SpecStatement == InitStatement /\ [][NextEditor]_vars

----------------------------------------------------------------------------
(* The checker on its own: it reads isGroup and balance only, so the saved *)
(* lines differ in these (and lie in or out of the statement's sections),  *)
(* and the steps are those that change the two.                            *)

CheckedLines ==
    {SavedLine(type, "Zeta", isGroup, balance) :
        type \in {ASSET, UNCLASSIFIED}, isGroup \in BOOLEAN,
        balance \in StatementAmounts}

CheckedLineSets ==
    {Numbered(lines) : lines \in SeqsUpTo(CheckedLines, MaxLines) \cup {BalancedExample}}

InitChecker ==
    /\ \E lines \in CheckedLineSets :
          /\ client = [NewClient("") EXCEPT !.accounts = lines]
          /\ accounts = lines
          /\ nextId = Len(lines)
    /\ globalModel = ""
    /\ loading = FALSE
    /\ tab = "CLASSIFICATION"
    /\ fin = [s \in Slots |-> IdleFin]
    /\ reg = [s \in RegSlots |-> IdleReg]
    /\ lastImport = NoImport
    /\ edits = 0
    /\ app = AppInWorkbench

NextChecker ==
    \/ handleAddAccount
    \/ \E id \in LineIds(accounts) : handleDeleteAccount(id)
    \/ \E id \in LineIds(accounts), value \in SampleEditValues("balance") :
          handleManualEdit(id, "balance", value)

SpecChecker == InitChecker /\ [][NextChecker]_vars

----------------------------------------------------------------------------
(* The line editor on its own: a workspace mounted on a few saved lines    *)
(* that differ in their amounts and flags, and every operation of the      *)
(* editor.                                                                 *)

\* a debit line, a credit line that is a group, and a line edited before
\* whose balance is not its debit less its credit
EditorLines ==
    {SavedLine(ASSET, "Zeta", FALSE, 1 * Scale),
     SavedLine(LIABILITY, "Caja y Bancos", TRUE, -1 * Scale),
     [SavedLine(EQUITY, "", FALSE, 1 * Scale + 1) EXCEPT
         !.balance = 3 * Scale, !.manualOverride = TRUE]}

EditorLineSets == {Numbered(lines) : lines \in SeqsUpTo(EditorLines, MaxLines)}

InitEditor ==
    /\ \E lines \in EditorLineSets :
          /\ client = [NewClient("") EXCEPT !.accounts = lines]
          /\ accounts = lines
          /\ nextId = Len(lines)
    /\ globalModel = ""
    /\ loading = FALSE
    /\ tab = "CLASSIFICATION"
    /\ fin = [s \in Slots |-> IdleFin]
    /\ reg = [s \in RegSlots |-> IdleReg]
    /\ lastImport = NoImport
    /\ edits = 0
    /\ app = AppInWorkbench

SpecEditor == InitEditor /\ [][NextEditor]_vars

----------------------------------------------------------------------------
(* The rule text of an import: for each pair of client regulations and     *)
(* global model, an import that awaits the classification oracle.          *)

\* no text, a text of nine characters, a text of twenty-seven
RuleTexts == {"", "Rubros: A", "Rubros: Caja y Bancos, Zeta"}

ClassifyingFor(rawAccounts, c) ==
    [s \in Slots |->
        IF s = 1
        THEN [IdleFin EXCEPT !.pc = "classifying", !.client = c,
                             !.file = [name |-> "balance.pdf", sheet |-> FALSE,
                                       rows |-> <<>>],
                             !.raw = rawAccounts]
        ELSE IdleFin]

InitRules ==
    /\ client \in {NewClient(r) : r \in RuleTexts}
    /\ accounts = <<>>
    /\ globalModel \in RuleTexts
    /\ loading = TRUE
    /\ tab = "UPLOAD"
    /\ fin \in {ClassifyingFor(rawAccounts, client) : rawAccounts \in RawInputs}
    /\ reg = [s \in RegSlots |-> IdleReg]
    /\ lastImport = NoImport
    /\ nextId = 0
    /\ edits = 0
    /\ app = AppInWorkbench

NextRules ==
    \E s \in InFlightFin : \E resp \in SampleResponses : FinClassified(s, resp)

SpecRules == InitRules /\ [][NextRules]_vars

----------------------------------------------------------------------------
(* The spreadsheet strategy alone: a sheet of up to MaxRows rows has been  *)
(* read, and the oracle answers one of the column mappings.                *)

\* the amount cells "-25", "5" and "x"
ExtractCells == {<<"-", "2", "5">>, <<"5">>, <<"x">>}

\* rows <<name, amount, amount>>, rows of a name only and the empty row
ExtractRows ==
    {<<name, a, b>> : name \in {<<"C">>, <<"D", " ">>, <<" ">>},
                      a \in ExtractCells, b \in ExtractCells}
    \cup {<< <<"C">> >>, <<>>}

ExtractSheets == SeqsUpTo(ExtractRows, MaxRows) \ {<<>>}

\* debit and credit columns, alone and with a balance column; a balance
\* column alone, from the first and from the second row; a debit and a
\* balance column; no amount column; no name column
ExtractMappings ==
    {Mapping(-1, 0, 1, 2, -1, 0), Mapping(-1, 0, 1, 2, 1, 0),
     Mapping(-1, 0, -1, -1, 1, 0), Mapping(-1, 0, -1, -1, 2, 1),
     Mapping(-1, 0, 1, -1, 2, 0), Mapping(-1, 0, -1, -1, -1, 0),
     Mapping(-1, -1, 1, 2, -1, 0)}

Parsing(rows) ==
    [s \in Slots |->
        IF s = 1
        THEN [IdleFin EXCEPT !.pc = "parsing",
                             !.file = [name |-> "libro.xlsx", sheet |-> TRUE,
                                       rows |-> rows]]
        ELSE IdleFin]

InitExtract ==
    /\ client = NewClient("")
    /\ accounts = <<>>
    /\ globalModel = ""
    /\ loading = TRUE
    /\ tab = "UPLOAD"
    /\ fin \in {Parsing(rows) : rows \in ExtractSheets}
    /\ reg = [s \in RegSlots |-> IdleReg]
    /\ lastImport = NoImport
    /\ nextId = 0
    /\ edits = 0
    /\ app = AppInWorkbench

NextExtract ==
    \E s \in InFlightFin : \E mapping \in ExtractMappings : FinParseSheet(s, mapping)

SpecExtract == InitExtract /\ [][NextExtract]_vars

----------------------------------------------------------------------------
(* The statement's category order: asset lines of up to MaxCategories      *)
(* categories, with and without a custom model, and the editor's category  *)
(* edits and deletions.                                                    *)

OrderingCategories ==
    {"Caja y Bancos", "Deudas Comerciales", "Inversiones", "Zeta", "Alfa", "2", "10"}

OrderingLineSets ==
    {Numbered([i \in 1..Len(cats) |-> SavedLine(ASSET, cats[i], FALSE, 1 * Scale)]) :
        cats \in SeqsUpTo(OrderingCategories, MaxCategories)}

InitOrdering ==
    /\ \E lines \in OrderingLineSets, rules \in SampleRules :
          /\ client = [NewClient(rules) EXCEPT !.accounts = lines]
          /\ accounts = lines
          /\ nextId = Len(lines)
    /\ globalModel = ""
    /\ loading = FALSE
    /\ tab = "CLASSIFICATION"
    /\ fin = [s \in Slots |-> IdleFin]
    /\ reg = [s \in RegSlots |-> IdleReg]
    /\ lastImport = NoImport
    /\ edits = 0
    /\ app = AppInWorkbench

NextOrdering ==
    \/ \E id \in LineIds(accounts) :
          \E value \in SampleEditValues("category") :
              handleManualEdit(id, "category", value)
    \/ \E id \in LineIds(accounts) : handleDeleteAccount(id)

SpecOrdering == InitOrdering /\ [][NextOrdering]_vars

----------------------------------------------------------------------------
(* The workspace mounted for a client that has saved lines, one of them    *)
(* edited by hand before: imports, the editor, tabs and saves.             *)

MountedLines ==
    Numbered(<<[SavedLine(EQUITY, "", FALSE, 1 * Scale + 1) EXCEPT
                   !.balance = 3 * Scale, !.manualOverride = TRUE],
               SavedLine(ASSET, "Zeta", FALSE, 1 * Scale)>>)

InitMounted ==
    /\ client = [NewClient("") EXCEPT !.accounts = MountedLines]
    /\ accounts = MountedLines
    /\ nextId = Len(MountedLines)
    /\ globalModel = ""
    /\ loading = FALSE
    /\ tab = "UPLOAD"
    /\ fin = [s \in Slots |-> IdleFin]
    /\ reg = [s \in RegSlots |-> IdleReg]
    /\ lastImport = NoImport
    /\ edits = 0
    /\ app = AppInWorkbench

SpecMounted == InitMounted /\ [][Next]_vars

----------------------------------------------------------------------------
(* Properties of the workspace (Spec, SpecUploads)                         *)

\* the step in which the import of slot s ends
ImportEnds(s) == fin[s].pc # "idle" /\ fin'[s].pc = "idle"

\* C2: when the classification oracle fails during a financial import, the
\* import ends with an alert and neither the local line set nor the saved
\* client is replaced by it.
C2_OracleFailureFailsImport ==
    [][\A s \in Slots :
          (ImportEnds(s) /\ fin[s].pc = "classifying" /\ lastImport'.oracle = "failed")
              => (lastImport'.alerted /\ accounts' = accounts /\ client' = client)]_vars

\* C3: every line of the local and of the saved line set has one of the six
\* sections of AccountType.
C3_SectionDomain ==
    /\ \A i \in 1..Len(accounts) : accounts[i].type \in AccountType
    /\ \A i \in 1..Len(client.accounts) : client.accounts[i].type \in AccountType

\* C4: every line has debit >= 0 and credit >= 0.
C4_NonNegativeDebitCredit ==
    \A i \in 1..Len(accounts) : accounts[i].debit >= 0 /\ accounts[i].credit >= 0

\* C6: at most one financial import is in flight.
C6_AtMostOneImport == Cardinality(InFlightFin) <= 1

----------------------------------------------------------------------------
(* Properties of the merge (SpecMerge)                                     *)

\* the ids for which the oracle's answer has an entry
EntryIds(items) == {items[j].id : j \in 1..Len(items)}

\* the entry of id k that the answer ends with
EntryOf(items, k) ==
    items[CHOOSE j \in 1..Len(items) :
              /\ items[j].id = k
              /\ \A j2 \in (j + 1)..Len(items) : items[j2].id # k]

\* C7: the merge returns one line per raw line, in the order of the raw
\* lines, each with a section and a non-empty category, whatever the oracle
\* answered (nothing, fewer, more or misaligned entries, or a failure).
C7_FallbackCompleteness ==
    lastImport.parse = "lines" =>
        /\ Len(lastImport.out) = Len(lastImport.raw)
        /\ \A i \in 1..Len(lastImport.raw) :
              /\ lastImport.out[i].code = lastImport.raw[i].code
              /\ lastImport.raw[i].name # ""
                    => lastImport.out[i].name = lastImport.raw[i].name
              /\ lastImport.out[i].type # ""
              /\ lastImport.out[i].category # ""

\* two raw lines and an answer with an entry for the first only
C7_Witness ==
    /\ lastImport.oracle = "ok"
    /\ Len(lastImport.raw) = 2
    /\ EntryIds(lastImport.resp.items) = {0}
    /\ lastImport.raw[1] # lastImport.raw[2]
    /\ lastImport.out[1].type = ASSET
    /\ lastImport.out[2].type = UNCLASSIFIED

\* C8: a raw line whose index has no entry in the answer becomes a line of
\* section UNCLASSIFIED, category 'Sin Clasificar', isGroup false; entries
\* whose id is the index of no raw line change nothing in the output.
C8_FallbackLabels ==
    lastImport.oracle = "ok" =>
        LET raw == lastImport.raw
            items == lastImport.resp.items
            out == lastImport.out
            inRange == SelectSeq(items, LAMBDA item : item.id < Len(raw))
        IN  /\ \A i \in 1..Len(raw) :
                  (i - 1) \notin EntryIds(items) =>
                      /\ out[i].type = UNCLASSIFIED
                      /\ out[i].category = "Sin Clasificar"
                      /\ out[i].isGroup = FALSE
            /\ out = classifyAccounts(raw, [ok |-> TRUE, items |-> inRange],
                                      out[1].id - 1)

\* an answer with an entry past the last raw line and none for a raw line
C8_Witness ==
    /\ lastImport.oracle = "ok"
    /\ \E id \in EntryIds(lastImport.resp.items) : id >= Len(lastImport.raw)
    /\ \E i \in 1..Len(lastImport.raw) :
          /\ (i - 1) \notin EntryIds(lastImport.resp.items)
          /\ lastImport.out[i].category = "Sin Clasificar"

\* C9: a raw line whose index has an entry in the answer becomes a line
\* with the entry's section (when the entry has one), the entry's isGroup
\* and the entry's category, 'Otros' when the entry's category is empty.
C9_AppliedClassification ==
    lastImport.oracle = "ok" =>
        \A i \in 1..Len(lastImport.raw) :
            (i - 1) \in EntryIds(lastImport.resp.items) =>
                LET entry == EntryOf(lastImport.resp.items, i - 1)
                    line == lastImport.out[i]
                IN  /\ entry.type # "" => line.type = entry.type
                    /\ line.category = (IF entry.category = "" THEN "Otros"
                                        ELSE entry.category)
                    /\ line.isGroup = entry.isGroup

\* an entry with a section, isGroup true and an empty category, applied
C9_Witness ==
    /\ lastImport.oracle = "ok"
    /\ \E i \in 1..Len(lastImport.raw) :
          /\ (i - 1) \in EntryIds(lastImport.resp.items)
          /\ EntryOf(lastImport.resp.items, i - 1) =
                Item(i - 1, ASSET, "", TRUE)
          /\ lastImport.out[i].type = ASSET
          /\ lastImport.out[i].category = "Otros"
          /\ lastImport.out[i].isGroup

----------------------------------------------------------------------------
(* Properties of the statement and of the checker (SpecStatement)          *)

\* the five sections the statement is built from
StatementSections == {ASSET, LIABILITY, EQUITY, REVENUE, EXPENSE}

\* the groups of the statement g, by section
SectionGroups(g) ==
    [type \in StatementSections |->
        CASE type = ASSET -> g.assets
          [] type = LIABILITY -> g.liabilities
          [] type = EQUITY -> g.equity
          [] type = REVENUE -> g.revenue
          [] type = EXPENSE -> g.expenses]

\* the places <<section, group, position>> of the groups sec that hold line
Places(sec, line) ==
    UNION {UNION {{<<type, k, m>> :
                      m \in {m \in 1..Len(sec[type][k].accounts) :
                                sec[type][k].accounts[m] = line}} :
                  k \in 1..Len(sec[type])} :
           type \in StatementSections}

\* every line held by a group of sec is a non-group line of the set
GroupsHoldLinesOnly(sec) ==
    \A type \in StatementSections :
        \A k \in 1..Len(sec[type]) :
            \A m \in 1..Len(sec[type][k].accounts) :
                \E i \in 1..Len(accounts) :
                    /\ accounts[i] = sec[type][k].accounts[m]
                    /\ ~accounts[i].isGroup

\* C1: for every line set there is a statement, each non-group line,
\* whatever its section, is held by exactly one group of exactly one section
\* of it, and its groups hold nothing but the non-group lines.
C1_EveryNonGroupLineGrouped ==
    /\ ~groupedFinancials.thrown
    /\ LET sec == SectionGroups(groupedFinancials)
       IN
        /\ GroupsHoldLinesOnly(sec)
        /\ \A i \in 1..Len(accounts) :
              ~accounts[i].isGroup => Cardinality(Places(sec, accounts[i])) = 1

\* What the grouping does when it returns: each non-group line of one of
\* the five statement sections is held by exactly one group, a group of its
\* own section named by its category ('Otros' for none); group lines and
\* lines of any other section are held by no group; the groups hold nothing
\* but non-group lines of the set.
GroupingOfStatementSections ==
    ~groupedFinancials.thrown =>
    LET sec == SectionGroups(groupedFinancials)
    IN  /\ GroupsHoldLinesOnly(sec)
        /\ \A i \in 1..Len(accounts) :
              LET places == Places(sec, accounts[i])
              IN  IF ~accounts[i].isGroup /\ accounts[i].type \in StatementSections
                  THEN /\ Cardinality(places) = 1
                       /\ \A place \in places :
                             /\ place[1] = accounts[i].type
                             /\ sec[place[1]][place[2]].name
                                   = (IF accounts[i].category = "" THEN "Otros"
                                      ELSE accounts[i].category)
                  ELSE places = {}

\* the sum of the balances of the non-group lines
NonGroupBalance ==
    SumBalance(SelectSeq(accounts, LAMBDA a : ~a.isGroup))

\* C5: when the balances of the non-group lines sum to zero, liabilities
\* total + equity total + net result equals the assets total.
C5_BalanceSheetIdentity ==
    (NonGroupBalance = 0 /\ ~groupedFinancials.thrown) =>
        totalPasivoPN(groupedFinancials) = groupedFinancials.assetsTotal

DifferenceMessage(text) ==
    "El balance no da cero (Diferencia: " \o text \o "). Revisar asientos."

\* C10: the checker returns one finding of severity high, with no related
\* line and a message that holds the sum of the non-group balances with two
\* decimals, when the absolute value of that sum exceeds 1, and no finding
\* otherwise (at exactly 1 too).
C10_ConsistencyChecker ==
    LET grandTotal == NonGroupBalance
        exceeds == grandTotal # NaN /\ (grandTotal > Scale \/ grandTotal < -Scale)
    IN  /\ exceeds =>
              /\ Len(inconsistencies) = 1
              /\ inconsistencies[1].severity = "high"
              /\ inconsistencies[1].relatedAccountIds = <<>>
              /\ inconsistencies[1].message = DifferenceMessage(toFixed2(grandTotal))
        /\ ~exceeds => inconsistencies = <<>>
        /\ grandTotal = 10 * Scale =>
              inconsistencies[1].message = DifferenceMessage("10.00")
        /\ grandTotal = 1 * Scale + 1 =>
              inconsistencies[1].message = DifferenceMessage("1.01")
        /\ grandTotal = -2 * Scale =>
              inconsistencies[1].message = DifferenceMessage("-2.00")
        /\ grandTotal \in {1 * Scale, -1 * Scale, 1, 0} => inconsistencies = <<>>

\* balances 100, -40, -60 with the -60 edited to -50: one finding, 10.00
C10_Witness ==
    /\ Len(accounts) = 3
    /\ accounts[1].balance = 100 * Scale
    /\ accounts[2].balance = -40 * Scale
    /\ accounts[3].balance = -50 * Scale
    /\ accounts[3].manualOverride
    /\ Len(inconsistencies) = 1
    /\ inconsistencies[1].severity = "high"
    /\ inconsistencies[1].message = DifferenceMessage("10.00")

----------------------------------------------------------------------------
(* Properties of the line editor within the workspace (Spec)               *)

\* the line's balance is its debit less its credit
Balanced(line) == line.balance = line.debit - line.credit

\* the line of id in lines
LineOf(lines, id) == lines[CHOOSE i \in 1..Len(lines) : lines[i].id = id]

\* C11: a line whose balance differs from debit - credit is a line whose
\* balance was edited directly: whenever the line set changes, each of its
\* lines has balance = debit - credit, unless the step changed the balance
\* of that line alone of the three amounts, or the line was there before,
\* unchanged in its amounts, with a balance that already differed.
C11_BalanceIsDebitLessCredit ==
    [][\A j \in 1..Len(accounts') :
          \/ Balanced(accounts'[j])
          \/ /\ accounts'[j].id \in LineIds(accounts)
             /\ LET before == LineOf(accounts, accounts'[j].id)
                IN  /\ before.debit = accounts'[j].debit
                    /\ before.credit = accounts'[j].credit
                    /\ \/ before.balance # accounts'[j].balance
                       \/ ~Balanced(before)]_vars

----------------------------------------------------------------------------
(* Properties of the line editor on its own (SpecEditor)                   *)

LineFields ==
    {"id", "code", "name", "debit", "credit", "balance", "type", "category",
     "isGroup", "manualOverride"}

\* the fields an edit of field may change
MayChange(field) ==
    {field, "manualOverride"}
    \cup (IF field \in {"debit", "credit"} THEN {"balance"} ELSE {})

\* C12: an edit of a field of the line id returns as many lines in the same
\* order; the lines of another id are unchanged; on the line id the field
\* has the value, manualOverride is true, balance is debit - credit when
\* the field is debit or credit, and no other field changes (so an edit of
\* balance leaves debit and credit as they were).
C12_EditFrame ==
    [][\A id \in LineIds(accounts), field \in EditableFields :
          \A value \in SampleEditValues(field) :
              handleManualEdit(id, field, value) =>
                  /\ Len(accounts') = Len(accounts)
                  /\ \A i \in 1..Len(accounts) :
                        IF accounts[i].id # id
                        THEN accounts'[i] = accounts[i]
                        ELSE /\ accounts'[i][field] = value
                             /\ accounts'[i].manualOverride
                             /\ \A f \in LineFields \ MayChange(field) :
                                   accounts'[i][f] = accounts[i][f]
                             /\ field \in {"debit", "credit"} =>
                                   Balanced(accounts'[i])]_vars

\* the second of two lines after an edit of its debit; the first as saved
C12_Witness ==
    /\ edits = 1
    /\ Len(accounts) = 2
    /\ accounts[1] = client.accounts[1]
    /\ accounts[2].debit = -3 * Scale
    /\ accounts[2].credit = client.accounts[2].credit
    /\ accounts[2].balance = -3 * Scale - accounts[2].credit
    /\ accounts[2].balance # client.accounts[2].balance
    /\ accounts[2].manualOverride /\ ~client.accounts[2].manualOverride

\* the positions of lines whose line has another id than id
Kept(lines, id) == {i \in 1..Len(lines) : lines[i].id # id}

\* C14: deleting id returns the lines of another id, unchanged and in their
\* order; with no line of that id the result is the input; deleting the same
\* id from the result changes nothing.
C14_Deletion ==
    \A id \in 0..(MaxIds + 1) :
        LET out == DeleteAccount(accounts, id)
            kept == Kept(accounts, id)
        IN  /\ Len(out) = Cardinality(kept)
            /\ \A i \in kept :
                  out[Cardinality({k \in kept : k <= i})] = accounts[i]
            /\ id \notin LineIds(accounts) => out = accounts
            /\ DeleteAccount(out, id) = out

\* the first of two saved lines deleted: the second is the only line left
C14_Witness ==
    /\ edits = 1
    /\ Len(client.accounts) = 2
    /\ Len(accounts) = 1
    /\ accounts[1] = client.accounts[2]
    /\ DeleteAccount(client.accounts, client.accounts[1].id) = accounts

\* C15: adding a line returns one line more: first a new line with debit,
\* credit and balance 0, type UNCLASSIFIED, category 'Otros', isGroup false
\* and manualOverride true, under an id no line had, then the lines of the
\* input, unchanged and in their order.
C15_Insertion ==
    [][handleAddAccount =>
          /\ Len(accounts') = Len(accounts) + 1
          /\ accounts'[1].debit = 0
          /\ accounts'[1].credit = 0
          /\ accounts'[1].balance = 0
          /\ accounts'[1].type = UNCLASSIFIED
          /\ accounts'[1].category = "Otros"
          /\ accounts'[1].isGroup = FALSE
          /\ accounts'[1].manualOverride = TRUE
          /\ accounts'[1].id \notin LineIds(accounts)
          /\ Tail(accounts') = accounts]_vars

\* a new line on top of a saved line
C15_Witness ==
    /\ edits = 1
    /\ Len(accounts) = 2
    /\ accounts[1] = NewAccount(accounts[1].id)
    /\ accounts[2] = client.accounts[1]

\* the totals of the statement g, by section
SectionTotals(g) ==
    [type \in StatementSections |->
        CASE type = ASSET -> g.assetsTotal
          [] type = LIABILITY -> g.liabilitiesTotal
          [] type = EQUITY -> g.equityTotal
          [] type = REVENUE -> g.revenueTotal
          [] type = EXPENSE -> g.expenseTotal]

\* the signed sum of the numbers of a sequence, not a number when one is not
RECURSIVE SignedSum(_)
SignedSum(numbers) ==
    IF \E i \in 1..Len(numbers) : numbers[i] = NaN THEN NaN
    ELSE IF numbers = <<>> THEN 0
    ELSE Head(numbers) + SignedSum(Tail(numbers))

BalancesOf(lines) == [i \in 1..Len(lines) |-> lines[i].balance]

\* C18: in every statement and every section of it, the total of each
\* category group is the signed sum of the balances of the group's lines,
\* and the section total is the sum of the totals of its groups, which is
\* the signed sum of the balances of the non-group lines of the section.
C18_TotalAdditivity ==
    ~groupedFinancials.thrown =>
        LET sec == SectionGroups(groupedFinancials)
            tot == SectionTotals(groupedFinancials)
        IN  \A type \in StatementSections :
                /\ \A k \in 1..Len(sec[type]) :
                      sec[type][k].total = SignedSum(BalancesOf(sec[type][k].accounts))
                /\ tot[type] = SignedSum([k \in 1..Len(sec[type]) |-> sec[type][k].total])
                /\ tot[type] =
                      SignedSum(BalancesOf(SelectSeq(accounts,
                          LAMBDA a : a.type = type /\ ~a.isGroup)))

\* a liability group of two lines of opposite sign, -1.00 and 1.01, next to
\* a group of one line: the totals are 0.01, 1.00 and 1.01
C18_Witness ==
    /\ ~groupedFinancials.thrown
    /\ Len(accounts) = 2
    /\ Len(groupedFinancials.liabilities) = 1
    /\ Len(groupedFinancials.liabilities[1].accounts) = 2
    /\ groupedFinancials.liabilities[1].accounts[1].balance = -1 * Scale
    /\ groupedFinancials.liabilities[1].accounts[2].balance = 1 * Scale + 1
    /\ groupedFinancials.liabilities[1].total = 1
    /\ groupedFinancials.liabilitiesTotal = 1

----------------------------------------------------------------------------
(* Properties of the workspace mounted on saved lines (SpecMounted)        *)

\* C13: the lines an import sets all have manualOverride false; an edit
\* sets manualOverride true on the edited line; a line whose manualOverride
\* is true keeps it true in every step that keeps the line (edits of it,
\* edits, additions and deletions of other lines), until an import replaces
\* the line set.
C13_ManualOverrideProvenance ==
    [][/\ \A s \in Slots :
             (fin[s].pc = "classifying" /\ fin'[s].pc = "idle") =>
                 \A j \in 1..Len(accounts') : ~accounts'[j].manualOverride
       /\ \A id \in LineIds(accounts), field \in EditableFields :
             \A value \in SampleEditValues(field) :
                 handleManualEdit(id, field, value) =>
                     LineOf(accounts', id).manualOverride
       /\ \A id \in LineIds(accounts) \cap LineIds(accounts') :
             LineOf(accounts, id).manualOverride =>
                 LineOf(accounts', id).manualOverride]_vars

\* after an import of two lines, the first edited and the second not
C13_Witness ==
    /\ lastImport.oracle = "ok"
    /\ Len(lastImport.out) = 2
    /\ edits = 1
    /\ Len(accounts) = 2
    /\ accounts[1].id = lastImport.out[1].id
    /\ ~lastImport.out[1].manualOverride
    /\ accounts[1].manualOverride
    /\ accounts[2] = lastImport.out[2]
    /\ ~accounts[2].manualOverride

----------------------------------------------------------------------------
(* Properties of the category order (SpecOrdering)                         *)

\* the rank of a category in the fixed table, 99 for one outside it
TableRank(cat) == IF cat \in DOMAIN defaultOrderMap THEN defaultOrderMap[cat] ELSE 99

\* the position in accounts of the first line of section type and category cat
FirstEncounter(type, cat) ==
    CHOOSE i \in 1..Len(accounts) :
        /\ accounts[i].type = type /\ ~accounts[i].isGroup
        /\ CategoryKey(accounts[i]) = cat
        /\ \A j \in 1..(i - 1) :
              ~(accounts[j].type = type /\ ~accounts[j].isGroup
                /\ CategoryKey(accounts[j]) = cat)

CustomModelActive == client.customRegulations # "" \/ globalModel # ""

\* C16: without a custom model, within each section the categories are in
\* the order of their rank in the fixed table, a category outside the table
\* ranking 99, and categories of equal rank are in the order in which the
\* line sequence first meets them.
C16_DefaultCategoryOrder ==
    (~CustomModelActive /\ ~groupedFinancials.thrown) =>
        LET sec == SectionGroups(groupedFinancials)
        IN  \A type \in StatementSections :
                \A i, j \in 1..Len(sec[type]) :
                    i < j =>
                        LET a == sec[type][i].name
                            b == sec[type][j].name
                        IN  /\ TableRank(a) <= TableRank(b)
                            /\ TableRank(a) = TableRank(b) =>
                                  FirstEncounter(type, a) < FirstEncounter(type, b)

\* C17: with a custom model, within each section the categories of the
\* fixed table are in the order of their rank, every category outside the
\* table comes after every category of the table, and two categories
\* outside the table are in alphabetical order.
C17_CustomCategoryOrder ==
    (CustomModelActive /\ ~groupedFinancials.thrown) =>
        LET sec == SectionGroups(groupedFinancials)
        IN  \A type \in StatementSections :
                \A i, j \in 1..Len(sec[type]) :
                    i < j =>
                        LET a == sec[type][i].name
                            b == sec[type][j].name
                            inA == a \in DOMAIN defaultOrderMap
                            inB == b \in DOMAIN defaultOrderMap
                        IN  /\ (inA /\ inB) => defaultOrderMap[a] <= defaultOrderMap[b]
                            /\ ~(~inA /\ inB)
                            /\ (~inA /\ ~inB) => CollationRank(a) < CollationRank(b)

\* a custom model, and lines that meet Zeta, then Inversiones, then Alfa:
\* the statement shows Inversiones, Alfa, Zeta
C17_Witness ==
    /\ CustomModelActive
    /\ Len(accounts) = 3
    /\ accounts[1].category = "Zeta"
    /\ accounts[2].category = "Inversiones"
    /\ accounts[3].category = "Alfa"
    /\ ~groupedFinancials.thrown
    /\ Len(groupedFinancials.assets) = 3
    /\ groupedFinancials.assets[1].name = "Inversiones"
    /\ groupedFinancials.assets[2].name = "Alfa"
    /\ groupedFinancials.assets[3].name = "Zeta"

----------------------------------------------------------------------------
(* Properties of the spreadsheet strategy (SpecExtract)                    *)

\* the value of each amount cell, in hundredths: "x" holds no number
CellValues ==
    (<<"-", "2", "5">> :> -25 * Scale) @@ (<<"5">> :> 5 * Scale) @@ (<<"x">> :> 0)

\* the value of the cell of the 0-based column idx, 0 for a cell the row lacks
CellValue(row, idx) == IF idx < Len(row) THEN CellValues[row[idx + 1]] ELSE 0

\* the rows of the sheet that give a line: from the start row on, the rows
\* that are not empty and hold a name other than blanks
RetainedRows(rows, mapping) ==
    SelectSeq(SubSeq(rows, mapping.startRow + 1, Len(rows)),
              LAMBDA row :
                  /\ row # <<>>
                  /\ mapping.nameIndex > -1 /\ mapping.nameIndex < Len(row)
                  /\ \E i \in 1..Len(row[mapping.nameIndex + 1]) :
                        row[mapping.nameIndex + 1][i] # " ")

\* the imports whose sheet has been parsed
ParsedSheets == {s \in Slots : fin[s].pc = "classifying" /\ fin[s].file.sheet}

\* C19: when the debit and the credit column are both mapped, each retained
\* row gives a line whose debit and credit are the values of the row's debit
\* and credit cells, 0 for a cell that holds no number, and whose balance is
\* debit - credit, whether a balance column is mapped or not.
C19_DebitAndCreditMapped ==
    \A s \in ParsedSheets :
        LET mapping == fin[s].mapping
            kept == RetainedRows(fin[s].file.rows, mapping)
        IN  (mapping.debitIndex > -1 /\ mapping.creditIndex > -1) =>
                /\ Len(fin[s].raw) = Len(kept)
                /\ \A k \in 1..Len(kept) :
                      /\ fin[s].raw[k].debit = CellValue(kept[k], mapping.debitIndex)
                      /\ fin[s].raw[k].credit = CellValue(kept[k], mapping.creditIndex)
                      /\ fin[s].raw[k].balance =
                            CellValue(kept[k], mapping.debitIndex)
                            - CellValue(kept[k], mapping.creditIndex)

\* debit, credit and a balance column (the debit column again) mapped; rows
\* C 5 -25 and C x 5 give debit 5, credit -25, balance 30 and 0, 5, -5
C19_Witness ==
    \E s \in ParsedSheets :
        /\ fin[s].mapping = Mapping(-1, 0, 1, 2, 1, 0)
        /\ fin[s].file.rows = << << <<"C">>, <<"5">>, <<"-", "2", "5">> >>,
                                 << <<"C">>, <<"x">>, <<"5">> >> >>
        /\ fin[s].raw = <<RawLine("", "C", 5 * Scale, -25 * Scale, 30 * Scale),
                          RawLine("", "C", 0, 5 * Scale, -5 * Scale)>>

Max(a, b) == IF a >= b THEN a ELSE b

\* C20: when a balance column is mapped and neither a debit nor a credit
\* column, each retained row gives a line whose balance is the signed value
\* of the row's balance cell, whose debit is max(balance, 0) and whose
\* credit is max(-balance, 0).
C20_BalanceOnlyMapped ==
    \A s \in ParsedSheets :
        LET mapping == fin[s].mapping
            kept == RetainedRows(fin[s].file.rows, mapping)
        IN  (mapping.debitIndex = -1 /\ mapping.creditIndex = -1
             /\ mapping.balanceIndex > -1) =>
                /\ Len(fin[s].raw) = Len(kept)
                /\ \A k \in 1..Len(kept) :
                      LET balance == CellValue(kept[k], mapping.balanceIndex)
                      IN  /\ fin[s].raw[k].balance = balance
                          /\ fin[s].raw[k].debit = Max(balance, 0)
                          /\ fin[s].raw[k].credit = Max(-balance, 0)

\* a balance column alone; the rows C -25 and C 5 give debit 0, credit 25,
\* balance -25 and debit 5, credit 0, balance 5
C20_Witness ==
    \E s \in ParsedSheets :
        /\ fin[s].mapping = Mapping(-1, 0, -1, -1, 1, 0)
        /\ fin[s].file.rows = << << <<"C">>, <<"-", "2", "5">>, <<"x">> >>,
                                 << <<"C">>, <<"5">>, <<"x">> >> >>
        /\ Len(fin[s].raw) = 2
        /\ fin[s].raw[1].debit = 0
        /\ fin[s].raw[1].credit = 25 * Scale
        /\ fin[s].raw[1].balance = -25 * Scale
        /\ fin[s].raw[2].debit = 5 * Scale
        /\ fin[s].raw[2].credit = 0
        /\ fin[s].raw[2].balance = 5 * Scale

\* the name a name cell gives once trimmed
NameValues == (<<"C">> :> "C") @@ (<<"D", " ">> :> "D") @@ (<<" ">> :> "")

----------------------------------------------------------------------------
(* Properties of the line set under imports and the editor (SpecMounted)   *)

DistinctIds(lines) ==
    \A i, j \in 1..Len(lines) : i # j => lines[i].id # lines[j].id

\* C22: in every state reached by imports, additions, edits and deletions
\* the lines of the line set have pairwise distinct ids, and an edit leaves
\* the id of every line, the edited one included, as it was.
C22_UniqueImmutableIds ==
    /\ []DistinctIds(accounts)
    /\ [][\A id \in LineIds(accounts), field \in EditableFields :
             \A value \in SampleEditValues(field) :
                 handleManualEdit(id, field, value) =>
                     /\ Len(accounts') = Len(accounts)
                     /\ \A i \in 1..Len(accounts) : accounts'[i].id = accounts[i].id]_vars

\* an import of two lines, then an edit of the second
C22_Witness ==
    /\ lastImport.replaced
    /\ Len(lastImport.out) = 2
    /\ edits = 1
    /\ Len(accounts) = 2
    /\ accounts[1] = lastImport.out[1]
    /\ accounts[2] # lastImport.out[2]
    /\ accounts[2].id = lastImport.out[2].id
    /\ accounts[1].id # accounts[2].id

\* the step in which the import of slot s ends with lines
ImportCompletes(s) ==
    fin[s].pc = "classifying" /\ fin'[s].pc = "idle" /\ lastImport'.replaced

\* C23: when an import completes, the line set is the output of the merge
\* for the new document, one line for each raw line of it and in their
\* order, no line there was before the import is left in it, and the same
\* line set is what the client record holds.
C23_ImportReplaces ==
    [][\A s \in Slots :
          ImportCompletes(s) =>
              /\ accounts' = lastImport'.out
              /\ lastImport'.raw = fin[s].raw
              /\ Len(accounts') = Len(fin[s].raw)
              /\ \A i \in 1..Len(accounts') :
                    /\ accounts'[i].code = fin[s].raw[i].code
                    /\ accounts'[i].debit = OrZero(fin[s].raw[i].debit)
                    /\ accounts'[i].credit = OrZero(fin[s].raw[i].credit)
              /\ LineIds(accounts') \cap LineIds(accounts) = {}
              /\ \A i \in 1..Len(accounts'), j \in 1..Len(accounts) :
                    accounts'[i] # accounts[j]
              /\ client'.accounts = accounts']_vars

\* an import of two lines has replaced the two saved lines, one of which
\* had been edited by hand
C23_Witness ==
    /\ lastImport.replaced
    /\ edits = 0
    /\ Len(accounts) = 2
    /\ accounts = lastImport.out
    /\ client.accounts = accounts
    /\ \A i \in 1..2 : ~accounts[i].manualOverride
    /\ LineIds(accounts) \cap LineIds(MountedLines) = {}

\* the step in which the import of slot s ends on an empty extraction
ImportFindsNothing(s) ==
    fin[s].pc = "parsing" /\ fin'[s].pc = "idle" /\ lastImport'.parse = "empty"

\* C24: the extraction of a sheet returns a sequence of lines, empty when
\* no row gives a line; classification is never called with an empty
\* sequence; an import whose extraction returned the empty sequence ends
\* with an alert and leaves the line set and the client record as they
\* were.
C24_EmptyExtraction ==
    /\ [](\A s \in Slots : fin[s].pc = "classifying" => fin[s].raw # <<>>)
    /\ [][\A s \in Slots :
             /\ (fin[s].pc = "parsing" /\ fin[s].file.sheet /\ fin'[s] # fin[s]) =>
                   \/ fin'[s].pc = "classifying"
                      /\ Len(fin'[s].raw)
                            = Len(RetainedRows(fin[s].file.rows, fin'[s].mapping))
                   \/ ImportFindsNothing(s)
                      /\ RetainedRows(fin[s].file.rows, lastImport'.mapping) = <<>>
                   \/ fin'[s].pc = "idle" /\ lastImport'.parse = "threw"
             /\ ImportFindsNothing(s) =>
                   /\ lastImport'.alerted
                   /\ ~lastImport'.replaced
                   /\ lastImport'.oracle = "none"
                   /\ accounts' = accounts
                   /\ client' = client]_vars

\* the sheet's import has ended on a mapping without a name column: the
\* alert was shown, the two saved lines and the record are as they were
C24_Witness ==
    /\ lastImport.parse = "empty"
    /\ lastImport.file.sheet
    /\ lastImport.mapping.nameIndex = -1
    /\ lastImport.alerted
    /\ ~loading
    /\ accounts = MountedLines
    /\ client.accounts = MountedLines
    /\ client.files = <<>>

----------------------------------------------------------------------------
(* Determinism of the category order (SpecOrdering)                        *)

Sign(n) == IF n < 0 THEN -1 ELSE IF n > 0 THEN 1 ELSE 0

\* over the categories cats the comparator is a consistent order: comparing
\* b with a gives the opposite of comparing a with b, and "not after" is
\* transitive
ConsistentComparator(cats, custom) ==
    /\ \A a, b \in cats :
          Sign(compareCategories(a, b, custom)) = -Sign(compareCategories(b, a, custom))
    /\ \A a, b, c \in cats :
          (compareCategories(a, b, custom) <= 0 /\ compareCategories(b, c, custom) <= 0)
              => compareCategories(a, c, custom) <= 0

\* the position of cat in the sequence keys
KeyIndex(keys, cat) == CHOOSE i \in 1..Len(keys) : keys[i] = cat

\* C25: for every line set and either value of the custom-model flag, the
\* comparator is a consistent order over the categories of each section,
\* and the section's categories are the keys of the groups arranged in that
\* order, those that compare equal in the order of the keys: the one
\* arrangement every stable sort arrives at, so that two runs on the same
\* lines and flag give the same sequence of categories.
C25_OrderingDeterminism ==
    ~StatementThrows(accounts) =>
        \A custom \in BOOLEAN, type \in StatementSections :
            \A keys \in {GroupKeys(FilterByType(accounts, type))} :
                \A groups \in {groupByTypeAndCategory(accounts, type, custom)} :
                    LET cats == {keys[i] : i \in 1..Len(keys)}
                    IN  /\ ConsistentComparator(cats, custom)
                        /\ Len(groups) = Len(keys)
                        /\ {groups[i].name : i \in 1..Len(groups)} = cats
                        /\ \A i, j \in 1..Len(groups) :
                              i < j =>
                                  /\ compareCategories(groups[i].name, groups[j].name,
                                                       custom) <= 0
                                  /\ compareCategories(groups[i].name, groups[j].name,
                                                       custom) = 0
                                        => KeyIndex(keys, groups[i].name)
                                              < KeyIndex(keys, groups[j].name)

\* no custom model, and lines that meet Zeta, then Inversiones, then Caja y
\* Bancos: the statement shows Caja y Bancos, Inversiones, Zeta
C25_Witness ==
    /\ ~CustomModelActive
    /\ Len(accounts) = 3
    /\ accounts[1].category = "Zeta"
    /\ accounts[2].category = "Inversiones"
    /\ accounts[3].category = "Caja y Bancos"
    /\ ~groupedFinancials.thrown
    /\ Len(groupedFinancials.assets) = 3
    /\ groupedFinancials.assets[1].name = "Caja y Bancos"
    /\ groupedFinancials.assets[2].name = "Inversiones"
    /\ groupedFinancials.assets[3].name = "Zeta"

----------------------------------------------------------------------------
(* Properties of overlapping uploads (SpecUploads)                         *)

\* the step in which the regulation upload of slot s ends
RegulationEnds(s) == reg[s].pc = "extracting" /\ reg'[s].pc = "idle"

\* C26: no upload's save takes back what another upload saved while it ran:
\* the step that ends a financial import leaves the record's
\* customRegulations as they are, and the step that ends a regulation
\* upload leaves the record's accounts and files as they are.
C26_NoLostUpdate ==
    [][/\ \A s \in Slots :
             ImportCompletes(s) =>
                 client'.customRegulations = client.customRegulations
       /\ \A s \in RegSlots :
             RegulationEnds(s) =>
                 /\ client'.accounts = client.accounts
                 /\ client'.files = client.files]_vars

\* C27: whenever the loading flag is set it is cleared again later, given
\* that every file read and every oracle call ends.
C27_LoadingReturns == loading ~> ~loading

----------------------------------------------------------------------------
(* Properties of the settings view (SpecSettings)                          *)

\* C28: whenever isImportingModel is set it is cleared again later, given
\* that the file read and the call to the oracle end.
C28_ImportModelReturns == app.isImportingModel ~> ~app.isImportingModel

----------------------------------------------------------------------------
(* Properties of the merge's amounts (SpecMerge)                           *)

\* C29: after an import, each line made from a raw line whose debit, credit
\* and balance are numbers has the debit, the credit and the balance of
\* that raw line, whether the classification oracle answered or failed.
C29_MergePreservesNumerics ==
    lastImport.replaced =>
        \A i \in 1..Len(lastImport.raw) :
            LET raw == lastImport.raw[i]
            IN  (raw.debit # NaN /\ raw.credit # NaN /\ raw.balance # NaN) =>
                    /\ lastImport.out[i].debit = raw.debit
                    /\ lastImport.out[i].credit = raw.credit
                    /\ lastImport.out[i].balance = raw.balance

----------------------------------------------------------------------------
(* Properties of the rule text (SpecRules)                                 *)

\* C30: after an import, the statement's custom-model ordering is active
\* exactly when the classification of the import used the client's
\* regulations or the global model, not the default rule set, for the same
\* regulations and model.
C30_CustomModelFlagConsistency ==
    lastImport.replaced =>
        (hasCustomModel(client.customRegulations, globalModel)
            <=> lastImport.logic # "default")

====
